---- MODULE Spec2Model ----
(***************************************************************************)
(* GtDBusQueue (libglib-testing): a mock D-Bus service with a dedicated    *)
(* server thread, a thread-safe message queue and blocking / non-blocking  *)
(* pop operations.  Two threads are modelled: "main", the thread which     *)
(* constructed the queue (its thread-default context is client_context),   *)
(* and "server", the thread started by gt_dbus_queue_connect() (its        *)
(* thread-default context is server_context).                              *)
(***************************************************************************)
EXTENDS Integers, Sequences, FiniteSets, TLC

\* ------------------------------------------------------------------ bounds
MaxCalls == 2        \* method calls the code under test sends
MaxNames == 1        \* IDs handed out by g_bus_own_name_on_connection()
MaxObjects == 1      \* IDs handed out by g_dbus_connection_register_object()
MaxConnects == 2     \* successful gt_dbus_queue_connect() calls
MaxLifeCalls == 1    \* method calls sent in the life-cycle tests
MaxRegNames == 2     \* names owned in the registration tests
MaxClosures == 2     \* gt_signal_logger_connect() calls
MaxEmissions == 3    \* handler invocations logged
MaxRegObjects == 2   \* objects exported in the registration tests

Threads == {"main", "server"}
Paths == {<< "/", "a" >>}
UserData == {1}

VARIABLES
  server_thread,      \* GtDBusQueue.server_thread != NULL
  spc,                \* position of the server thread in gt_dbus_queue_server_thread_cb
  server_func,        \* GtDBusQueue.server_func (0 = NULL)
  server_func_data,   \* GtDBusQueue.server_func_data (0 = NULL)
  sf_local,           \* locals server_func / server_func_data of the server thread
  quitting,           \* GtDBusQueue.quitting
  client_connection,  \* GtDBusQueue.client_connection != NULL
  server_connection,  \* GtDBusQueue.server_connection != NULL
  server_filter_id,   \* GtDBusQueue.server_filter_id
  name_ids,           \* GtDBusQueue.name_ids
  object_ids,         \* GtDBusQueue.object_ids
  lock,               \* holder of GtDBusQueue.lock ("none" when free)
  bus_names,          \* name IDs currently owned at the GDBus level
  bus_objects,        \* <<id, path>> registrations at the GDBus level
  next_name_id,       \* GDBus counter for name-owner IDs
  next_object_id,     \* GDBus counter for registration IDs
  server_message_queue, \* GtDBusQueue.server_message_queue
  qlock,              \* holder of the GAsyncQueue mutex across format_messages
  local_queue,        \* per thread: local_queue of gt_dbus_queue_format_messages
  server_sources,     \* sources attached to server_context, in attach order
  server_wake,        \* pending g_main_context_wakeup (server_context)
  client_wake,        \* pending g_main_context_wakeup (client_context)
  iter,               \* the server thread's running g_main_context_iteration
  pc,                 \* per thread: position inside a GtDBusQueue call
  locals,           \* per thread: locals of its running call (OwnNameData.id,
                      \* ExportObjectData {id, error}, the func / id argument)
  transit,            \* calls sent on the client connection, not yet delivered
  next_serial,        \* serial of the next call sent
  n_connects,         \* successful connects so far
  returned,           \* history: value returned by the last gt_dbus_queue_connect,
                      \* or by the last call stopped by g_return_val_if_fail
  failure,            \* assertion which aborted the process ("none" otherwise)
  dispatched,         \* history: messages pushed by gt_dbus_queue_method_call
  popped,             \* history: messages handed out by pops, in pop order
  ret,                \* per thread: gboolean returned by its last pop / try-pop
  blocked_at_push,    \* history: per queued message, threads blocked in pop when
                      \* it was pushed
  func_calls,         \* history: number of invocations of the server function
  installs,           \* history: successful set_server_func compare-and-swaps
  fmt_before,         \* history: per thread inside format_messages, the queue
                      \* when it took the lock
  dlog,               \* history: steps done by the running disconnect
  sent,               \* per serial: the method call sent with that serial
  replied,            \* per serial: the reply sent on that call's invocation
  results,            \* per serial: the reply received by the caller
  popcall,            \* per thread: arguments of its running pop
  invocation,         \* per thread: *out_invocation of its last pop (0 = NULL)
  third,              \* a third thread, with a GMainContext of its own: its pop
  log,                \* GtSignalLogger.log
  closures,           \* GtSignalLogger.closures
  emitted,            \* history: handler invocations, in emission order
  lpopped,            \* history: emissions removed by gt_signal_logger_pop_emission
  lout,               \* return value and out locations of the last pop_emission
  alive,              \* the objects which have not been finalised
  lfreed,             \* gt_signal_logger_free has been called
  held                \* per closure: popped emissions the caller still owns

vDBus == << server_thread, spc, server_func, server_func_data, sf_local, quitting,
           client_connection, server_connection, server_filter_id, name_ids,
           object_ids, lock, bus_names, bus_objects, next_name_id, next_object_id,
           server_message_queue, qlock, local_queue, server_sources, server_wake,
           client_wake, iter, pc, locals, transit, next_serial, n_connects,
           failure, dispatched, popped, blocked_at_push, func_calls, installs,
           fmt_before, dlog, ret, returned, sent, replied, results, popcall,
           invocation, third >>
vLife == << alive, lfreed, held >>
vLog == << log, closures, emitted, lpopped, lout, vLife >>
vars == << vDBus, vLog >>

\* groups used in UNCHANGED clauses
vConn == << client_connection, server_connection, server_filter_id, n_connects,
           returned >>
vLink == << client_connection, server_connection, server_filter_id, n_connects >>
vFunc == << server_func, server_func_data, installs >>
vIds == << name_ids, object_ids, lock, bus_names, bus_objects, next_name_id,
           next_object_id, locals >>
vQueue == << server_message_queue, qlock, local_queue, fmt_before, popped, ret >>
vPush == << dispatched, blocked_at_push >>
vCtx == << server_sources, server_wake, client_wake >>
vSrv == << server_thread, spc, sf_local, func_calls, iter >>
vNet == << transit, next_serial >>
vCall == << sent, replied, results >>
vPop == << popcall, invocation >>

\* Object paths, interfaces and methods of the mock service of the tests:
\* "/com/example/Test" with com.example.Test.Manager.GetObjectPath and
\* "/com/example/Test/Object<id>" with org.freedesktop.DBus.Properties.GetAll.
ManagerPath == << "/", "a" >>
Interfaces == {"Manager", "Properties"}
Methods == {"GetObjectPath", "GetAll"}
Serials == 1..(MaxCalls + 1)
NoReply == << >>

\* The call ClientCall sends: Manager.GetObjectPath (uint32 1) on ManagerPath.
DefaultCall ==
  [sender |-> "client", path |-> ManagerPath, interface |-> "Manager",
   method |-> "GetObjectPath", parameters |-> << "u", 1 >>, async |-> TRUE]

\* A pop with out_invocation = NULL which is not part of an assert-pop.
NoPop == [out |-> FALSE, assert |-> FALSE, path |-> << >>,
          interface |-> "none", method |-> "none"]

\* Objects and signals of the signal logger tests.
Objects == {1, 2}
Signals == {"notify", "changed"}

\* An emission pointer which is NULL, and the caller's variables before any
\* pop has written to them.
NullEmission == [closure |-> 0, params |-> << >>]
Unwritten ==
  [result |-> "none", obj |-> -1, obj_type_name |-> "unwritten",
   signal_name |-> "unwritten", emission |-> [closure |-> -1, params |-> << >>]]

NoReg == [id |-> 0, error |-> FALSE, path |-> << >>]
IterOff == [on |-> FALSE, batch |-> << >>, did |-> FALSE, mc |-> 0]

\* gt_dbus_queue_new
Init ==
  /\ server_thread = FALSE
  /\ spc = "none"
  /\ server_func = 0
  /\ server_func_data = 0
  /\ sf_local = [func |-> 0, data |-> 0]
  /\ quitting = FALSE
  /\ client_connection = FALSE
  /\ server_connection = FALSE
  /\ server_filter_id = 0
  /\ name_ids = << >>
  /\ object_ids = << >>
  /\ lock = "none"
  /\ bus_names = {}
  /\ bus_objects = {}
  /\ next_name_id = 1
  /\ next_object_id = 1
  /\ server_message_queue = << >>
  /\ qlock = "none"
  /\ local_queue = [t \in Threads |-> << >>]
  /\ server_sources = << >>
  /\ server_wake = FALSE
  /\ client_wake = FALSE
  /\ iter = IterOff
  /\ pc = [t \in Threads |-> "ready"]
  /\ locals = [t \in Threads |-> NoReg]
  /\ transit = << >>
  /\ next_serial = 1
  /\ n_connects = 0
  /\ returned = << "none" >>
  /\ failure = "none"
  /\ dispatched = << >>
  /\ popped = << >>
  /\ blocked_at_push = [m \in 1..(MaxCalls + 1) |-> {}]
  /\ func_calls = 0
  /\ installs = 0
  /\ fmt_before = [t \in Threads |-> << >>]
  /\ dlog = << >>
  /\ ret = [t \in Threads |-> "none"]
  /\ sent = << >>
  /\ replied = [m \in Serials |-> NoReply]
  /\ results = [m \in Serials |-> NoReply]
  /\ popcall = [t \in Threads |-> NoPop]
  /\ invocation = [t \in Threads |-> 0]
  /\ third = [pc |-> "ready", ret |-> "none"]
  /\ log = << >>
  /\ closures = << >>
  /\ emitted = << >>
  /\ lpopped = << >>
  /\ lout = Unwritten
  /\ alive = Objects
  /\ lfreed = FALSE
  /\ held = [c \in 1..MaxClosures |-> 0]

\* ---------------------------------------------------------------- helpers
Range(s) == {s[i] : i \in 1..Len(s)}

\* A thread is between two GtDBusQueue calls: the main thread in the test
\* body, the server thread inside the GtDBusQueueServerFunc.
CanCall(t) ==
  /\ failure = "none"
  /\ pc[t] = "ready"
  /\ (t = "server" => (spc = "func" /\ ~iter.on))

Running(t) ==
  /\ failure = "none"
  /\ (t = "server" => (spc = "func" /\ ~iter.on))

\* Variant: the length is reduced by every thread which is inside a pop, as
\* g_async_queue_length () would report were the pops blocking ones.
LengthLessPoppers ==
  LET n == Len(server_message_queue)
             - Cardinality({t \in Threads : pc[t] \in {"pop_try", "pop_iter"}})
  IN IF n > 0 THEN n ELSE 0

\* gt_dbus_queue_get_n_messages: MAX (g_async_queue_length (), 0)
gt_dbus_queue_get_n_messages ==
  IF Len(server_message_queue) > 0 THEN Len(server_message_queue) ELSE 0

\* Variant: one queued message is tolerated.
MoreThanOneMessage == gt_dbus_queue_get_n_messages > 1

\* The condition of gt_dbus_queue_assert_no_messages:
\* if (gt_dbus_queue_get_n_messages (self) > 0)
HasMessages == gt_dbus_queue_get_n_messages > 0

\* gt_dbus_queue_assert_no_messages (macro): when the queue holds messages
\* they are formatted (which leaves the queue as it was) and
\* g_assertion_message () aborts the test; otherwise nothing happens, which
\* is recorded in `returned`.
gt_dbus_queue_assert_no_messages(t) ==
  /\ CanCall(t)
  /\ qlock = "none"
  /\ IF HasMessages
       THEN /\ failure' = "assert_no_messages"
            /\ UNCHANGED returned
       ELSE /\ returned' = << "assert_no_messages" >>
            /\ UNCHANGED failure
  /\ UNCHANGED << third, vLog, vCall, vPop, vLink, vFunc, quitting, vIds, vQueue, vPush, vCtx, vSrv, vNet,
                  pc, dlog >>

\* gt_dbus_queue_get_client_connection (lines 596-602)
gt_dbus_queue_get_client_connection == client_connection

\* ------------------------------------------------- connect (lines 649-694)
\* okc / oks: whether g_dbus_connection_new_for_address_sync succeeds for the
\* client and for the server connection.
\* g_return_val_if_fail (self->server_thread == NULL, FALSE) logs a critical
\* and returns FALSE.
\* Variant: the precondition is not checked.
ConnectUnchecked == FALSE

AlreadyConnected == server_thread

gt_dbus_queue_connect(okc, oks, limit) ==
  /\ CanCall("main")
  /\ n_connects < limit
  /\ IF AlreadyConnected
       THEN /\ returned' = << "connect", FALSE >>
            /\ UNCHANGED << client_connection, server_connection, server_filter_id,
                            n_connects, vSrv >>
       ELSE IF ~okc
       THEN /\ client_connection' = FALSE
            /\ returned' = << "connect", FALSE >>
            /\ UNCHANGED << server_connection, server_filter_id, n_connects, vSrv >>
       ELSE /\ client_connection' = TRUE
            /\ IF ~oks
                 THEN /\ server_connection' = FALSE
                      /\ returned' = << "connect", FALSE >>
                      /\ UNCHANGED << server_filter_id, n_connects, vSrv >>
                 ELSE /\ server_connection' = TRUE
                      /\ server_filter_id' = 1
                      /\ server_thread' = TRUE
                      /\ spc' = "loop1"
                      /\ sf_local' = [func |-> 0, data |-> 0]
                      /\ n_connects' = n_connects + 1
                      /\ returned' = << "connect", TRUE >>
                      /\ UNCHANGED << func_calls, iter >>
  /\ UNCHANGED << third, vLog, vCall, vPop, vFunc, quitting, vIds, vQueue, vPush, vCtx, pc, vNet, failure, dlog >>

\* ------------------------------------------------------------- transport
\* The code under test sends a method call on the client connection
\* (g_dbus_connection_call, tests/dbus-queue.c).
ClientCall(limit) ==
  /\ CanCall("main")
  /\ client_connection
  /\ next_serial <= limit
  /\ transit' = Append(transit, next_serial)
  /\ next_serial' = next_serial + 1
  /\ sent' = Append(sent, DefaultCall)
  /\ UNCHANGED << third, vLog, replied, results, vPop, vConn, vFunc, quitting, vIds, vQueue, vPush, vCtx, vSrv, pc,
                  failure, dlog >>

\* The GDBus worker of the server connection receives the call for an exported
\* object and schedules its dispatch in server_context (the context the object
\* was registered in); attaching the source wakes the context.
Deliver ==
  /\ failure = "none"
  /\ transit # << >>
  /\ server_connection
  /\ \E o \in bus_objects :
       /\ o[2] = sent[Head(transit)].path
       /\ server_sources' = Append(server_sources, << "call", Head(transit), o[1] >>)
  /\ server_wake' = TRUE
  /\ transit' = Tail(transit)
  /\ UNCHANGED << third, vLog, vCall, vPop, vConn, vFunc, quitting, vIds, vQueue, vPush, client_wake, vSrv, pc,
                  next_serial, failure, dlog >>

\* A call which reaches no exported object is answered by the bus / GDBus
\* itself and never reaches gt_dbus_queue_method_call.
Discard ==
  /\ failure = "none"
  /\ transit # << >>
  /\ \/ ~server_connection
     \/ \A o \in bus_objects : o[2] # sent[Head(transit)].path
  /\ transit' = Tail(transit)
  /\ UNCHANGED << third, vLog, vCall, vPop, vConn, vFunc, quitting, vIds, vQueue, vPush, vCtx, vSrv, pc,
                  next_serial, failure, dlog >>

\* ------------------------------ server thread (lines 1093-1124)
\* while (!quitting && server_func == NULL) g_main_context_iteration (.., TRUE)
ServerLoop1 ==
  /\ failure = "none"
  /\ spc = "loop1"
  /\ spc' = IF ~quitting /\ server_func = 0 THEN "loop1_iter" ELSE "read_func"
  /\ UNCHANGED << third, vLog, vCall, vPop, server_thread, sf_local, func_calls, iter, vConn, vFunc, quitting,
                  vIds, vQueue, vPush, vCtx, pc, vNet, failure, dlog >>

\* server_func = g_atomic_pointer_get (&self->server_func)
ServerReadFunc ==
  /\ failure = "none"
  /\ spc = "read_func"
  /\ sf_local' = [sf_local EXCEPT !.func = server_func]
  /\ spc' = "read_data"
  /\ UNCHANGED << third, vLog, vCall, vPop, server_thread, func_calls, iter, vConn, vFunc, quitting,
                  vIds, vQueue, vPush, vCtx, pc, vNet, failure, dlog >>

\* How often the thread function invokes a non-NULL server_func.
ServerFuncInvocations(func) == IF func # 0 THEN 1 ELSE 0

\* server_func_data = g_atomic_pointer_get (..); if (server_func != NULL) server_func (..)
ServerReadData ==
  /\ failure = "none"
  /\ spc = "read_data"
  /\ sf_local' = [sf_local EXCEPT !.data = server_func_data]
  /\ func_calls' = func_calls + ServerFuncInvocations(sf_local.func)
  /\ spc' = IF sf_local.func # 0 THEN "func" ELSE "loop2"
  /\ UNCHANGED << third, vLog, vCall, vPop, server_thread, iter, vConn, vFunc, quitting,
                  vIds, vQueue, vPush, vCtx, pc, vNet, failure, dlog >>

\* The GtDBusQueueServerFunc returns.
ServerFuncReturn ==
  /\ CanCall("server")
  /\ spc' = "loop2"
  /\ UNCHANGED << third, vLog, vCall, vPop, server_thread, sf_local, func_calls, iter, vConn, vFunc, quitting,
                  vIds, vQueue, vPush, vCtx, pc, vNet, failure, dlog >>

\* Variant: the thread does not wait for the quitting flag.
ServerLoop2NoWait ==
  /\ failure = "none"
  /\ spc = "loop2"
  /\ spc' = "loop3_iter"
  /\ UNCHANGED << third, vLog, vCall, vPop, server_thread, sf_local, func_calls, iter, vConn, vFunc, quitting,
                  vIds, vQueue, vPush, vCtx, pc, vNet, failure, dlog >>

\* while (!quitting) g_main_context_iteration (.., TRUE)
ServerLoop2 ==
  /\ failure = "none"
  /\ spc = "loop2"
  /\ spc' = IF ~quitting THEN "loop2_iter" ELSE "loop3_iter"
  /\ UNCHANGED << third, vLog, vCall, vPop, server_thread, sf_local, func_calls, iter, vConn, vFunc, quitting,
                  vIds, vQueue, vPush, vCtx, pc, vNet, failure, dlog >>

\* ------------------------------ g_main_context_iteration (server_context)
IterSite ==
  IF spc \in {"loop1_iter", "loop2_iter", "loop3_iter"} THEN spc
  ELSE IF spc = "func" /\ pc["server"] = "pop_iter" THEN "pop_iter"
  ELSE "none"

\* may_block argument at each call site (lines 1105, 1116, 1119, 1216)
MayBlock(site) == site # "loop3_iter"

IterBegin ==
  /\ failure = "none"
  /\ ~iter.on
  /\ IterSite # "none"
  /\ MayBlock(IterSite) => (server_wake \/ server_sources # << >>)
  /\ iter' = [on |-> TRUE, batch |-> server_sources, did |-> FALSE, mc |-> 0]
  /\ server_sources' = << >>
  /\ server_wake' = FALSE
  /\ UNCHANGED << third, vLog, vCall, vPop, server_thread, spc, sf_local, func_calls, vConn, vFunc, quitting,
                  vIds, vQueue, vPush, client_wake, pc, vNet, failure, dlog >>

IterEnd ==
  /\ failure = "none"
  /\ iter.on
  /\ iter.batch = << >>
  /\ iter' = IterOff
  /\ CASE IterSite = "loop1_iter" -> spc' = "loop1" /\ pc' = pc
       [] IterSite = "loop2_iter" -> spc' = "loop2" /\ pc' = pc
       [] IterSite = "loop3_iter" ->
            spc' = (IF iter.did THEN "loop3_iter" ELSE "exited") /\ pc' = pc
       [] OTHER -> spc' = spc /\ pc' = [pc EXCEPT !["server"] = "pop_try"]
  /\ UNCHANGED << third, vLog, vCall, vPop, server_thread, sf_local, func_calls, vConn, vFunc, quitting,
                  vIds, vQueue, vPush, vCtx, vNet, failure, dlog >>

\* --------------------------- gt_dbus_queue_method_call (lines 1130-1153)
\* Variant: both contexts are woken before the message is pushed.
MethodCallWakeFirst == << "wake_client", "wake_server", "push" >>

\* Variants: the invocation is pushed twice; it is not pushed at all.
MethodCallPushTwice == << "push", "push", "wake_client", "wake_server" >>
MethodCallNoPush == << "wake_client", "wake_server" >>

\* The order of the three statements of the handler.
MethodCallSteps == << "push", "wake_client", "wake_server" >>

\* Threads inside the blocking loop of gt_dbus_queue_pop_message_internal.
BlockedInPop == {t \in Threads : pc[t] = "pop_iter"}

gt_dbus_queue_method_call ==
  /\ failure = "none"
  /\ iter.on
  /\ iter.batch # << >>
  /\ Head(iter.batch)[1] = "call"
  /\ LET m == Head(iter.batch)[2]
         oid == Head(iter.batch)[3]
         registered == \E o \in bus_objects : o[1] = oid
         step == MethodCallSteps[iter.mc + 1]
         last == (iter.mc + 1 = Len(MethodCallSteps))
     IN IF iter.mc = 0 /\ ~registered
          THEN \* call_in_idle_cb of GDBus: object unregistered meanwhile
               /\ iter' = [iter EXCEPT !.batch = Tail(@), !.did = TRUE]
               /\ UNCHANGED << server_message_queue, vPush, client_wake, server_wake >>
          ELSE /\ iter' = IF last
                            THEN [iter EXCEPT !.batch = Tail(@), !.did = TRUE, !.mc = 0]
                            ELSE [iter EXCEPT !.mc = @ + 1]
               /\ CASE step = "push" ->
                         /\ qlock = "none"
                         /\ server_message_queue' = Append(server_message_queue, m)
                         /\ dispatched' = Append(dispatched, m)
                         /\ blocked_at_push' = [blocked_at_push EXCEPT ![m] = BlockedInPop]
                         /\ UNCHANGED << client_wake, server_wake >>
                    [] step = "wake_client" ->
                         /\ client_wake' = TRUE
                         /\ UNCHANGED << server_message_queue, vPush, server_wake >>
                    [] OTHER ->
                         /\ server_wake' = TRUE
                         /\ UNCHANGED << server_message_queue, vPush, client_wake >>
  /\ UNCHANGED << third, vLog, vCall, vPop, server_thread, spc, sf_local, func_calls, vConn, vFunc, quitting,
                  vIds, qlock, local_queue, fmt_before, popped, ret, server_sources,
                  pc, vNet, failure, dlog >>

\* ------------------- gt_dbus_queue_pop_message_internal (lines 1201-1231)
\* Variants used to validate the properties: a pop from the tail, and a pop
\* which hands the element out but leaves it queued.
PopTail(q) == q[Len(q)]
PopKeep(q) == q

\* The element g_async_queue_try_pop takes, and what it leaves.
PopHead(q) == Head(q)
PopRest(q) == Tail(q)

\* Entry with wait = TRUE: enters the while loop.  With wait = FALSE the loop
\* condition `wait && (invocation = g_async_queue_try_pop (..)) == NULL` is
\* false before the queue is ever looked at: invocation stays NULL and the
\* function returns FALSE.
\* out: the caller passes a non-NULL out_invocation.  The precondition
\* failure returns before *out_invocation is written; the wait = FALSE path
\* stores the NULL invocation in it.
gt_dbus_queue_pop_message_internal(t, wait, out) ==
  /\ CanCall(t)
  /\ IF ~server_thread \/ ~wait
       THEN /\ ret' = [ret EXCEPT ![t] = "FALSE"]
            /\ pc' = pc
            /\ invocation' = IF server_thread /\ out
                               THEN [invocation EXCEPT ![t] = 0] ELSE invocation
            /\ UNCHANGED popcall
       ELSE /\ ret' = [ret EXCEPT ![t] = "none"]
            /\ pc' = [pc EXCEPT ![t] = "pop_try"]
            /\ popcall' = [popcall EXCEPT ![t] = [NoPop EXCEPT !.out = out]]
            /\ UNCHANGED invocation
  /\ UNCHANGED << third, vLog, vCall, vConn, vFunc, quitting, vIds, server_message_queue, qlock,
                  local_queue, fmt_before, popped, vPush, vCtx, vSrv, vNet,
                  failure, dlog >>

\* Variant: a try-pop which enters the blocking loop.
TryPopWaiting(t) == gt_dbus_queue_pop_message_internal(t, TRUE, FALSE)

\* lines 1250-1257 and 1276-1283
gt_dbus_queue_try_pop_message(t) == gt_dbus_queue_pop_message_internal(t, FALSE, FALSE)
gt_dbus_queue_pop_message(t) == gt_dbus_queue_pop_message_internal(t, TRUE, FALSE)

\* gt_dbus_queue_pop_message (self, &invocation)
PopMessageOut(t) == gt_dbus_queue_pop_message_internal(t, TRUE, TRUE)

\* Variant: a pop which gives up on an empty queue, as one with a timeout
\* would, and returns FALSE.
PopTryTimesOut(t) ==
  /\ Running(t)
  /\ pc[t] = "pop_try"
  /\ qlock = "none"
  /\ IF server_message_queue # << >>
       THEN /\ ret' = [ret EXCEPT ![t] = "TRUE"]
            /\ popped' = Append(popped, PopHead(server_message_queue))
            /\ blocked_at_push' =
                 [blocked_at_push EXCEPT ![PopHead(server_message_queue)] = {}]
            /\ server_message_queue' = PopRest(server_message_queue)
            /\ invocation' = IF popcall[t].out
                               THEN [invocation EXCEPT ![t] = PopHead(server_message_queue)]
                               ELSE invocation
            /\ pc' = [pc EXCEPT ![t] = IF popcall[t].assert THEN "apm_match"
                                                            ELSE "ready"]
            /\ popcall' = IF popcall[t].assert THEN popcall
                                               ELSE [popcall EXCEPT ![t] = NoPop]
            /\ UNCHANGED failure
       ELSE /\ ret' = [ret EXCEPT ![t] = "FALSE"]
            /\ pc' = [pc EXCEPT ![t] = "ready"]
            /\ failure' = IF popcall[t].assert THEN "assert_pop_no_message" ELSE failure
            /\ popcall' = [popcall EXCEPT ![t] = NoPop]
            /\ UNCHANGED << popped, blocked_at_push, server_message_queue, invocation >>
  /\ UNCHANGED << third, vLog, vCall, vConn, vFunc, quitting, vIds, qlock, local_queue, fmt_before,
                  dispatched, vCtx, vSrv, vNet, dlog >>

\* One evaluation of the loop condition: g_async_queue_try_pop.
PopTry(t) ==
  /\ Running(t)
  /\ pc[t] = "pop_try"
  /\ qlock = "none"
  /\ IF server_message_queue # << >>
       THEN /\ ret' = [ret EXCEPT ![t] = "TRUE"]
            /\ popped' = Append(popped, PopHead(server_message_queue))
            /\ blocked_at_push' =
                 [blocked_at_push EXCEPT ![PopHead(server_message_queue)] = {}]
            /\ server_message_queue' = PopRest(server_message_queue)
            /\ invocation' = IF popcall[t].out
                               THEN [invocation EXCEPT ![t] = PopHead(server_message_queue)]
                               ELSE invocation
            /\ pc' = [pc EXCEPT ![t] = IF popcall[t].assert THEN "apm_match"
                                                            ELSE "ready"]
            /\ popcall' = IF popcall[t].assert THEN popcall
                                               ELSE [popcall EXCEPT ![t] = NoPop]
       ELSE /\ pc' = [pc EXCEPT ![t] = "pop_iter"]
            /\ UNCHANGED << ret, popped, blocked_at_push, server_message_queue,
                            vPop >>
  /\ UNCHANGED << third, vLog, vCall, vConn, vFunc, quitting, vIds, qlock, local_queue, fmt_before,
                  dispatched, vCtx, vSrv, vNet, failure, dlog >>

\* gt_dbus_queue_pop_message in a third thread, which has pushed a
\* GMainContext of its own as its thread-default context.
ThirdPop ==
  /\ failure = "none"
  /\ third.pc = "ready"
  /\ third' = IF server_thread THEN [pc |-> "pop_try", ret |-> "none"]
                               ELSE [pc |-> "ready", ret |-> "FALSE"]
  /\ UNCHANGED << vLog, vCall, vPop, vConn, vFunc, quitting, vIds, vQueue, vPush, vCtx, vSrv,
                  pc, vNet, failure, dlog >>

\* One evaluation of the loop condition in the third thread.  When the queue
\* is empty the thread enters g_main_context_iteration (.., TRUE) on its own
\* context, which has no sources and which no code of the queue wakes up:
\* gt_dbus_queue_method_call wakes client_context and server_context only.
ThirdPopTry ==
  /\ failure = "none"
  /\ third.pc = "pop_try"
  /\ qlock = "none"
  /\ IF server_message_queue # << >>
       THEN /\ third' = [pc |-> "ready", ret |-> "TRUE"]
            /\ popped' = Append(popped, PopHead(server_message_queue))
            /\ blocked_at_push' =
                 [blocked_at_push EXCEPT ![PopHead(server_message_queue)] = {}]
            /\ server_message_queue' = PopRest(server_message_queue)
       ELSE /\ third' = [third EXCEPT !.pc = "pop_iter"]
            /\ UNCHANGED << popped, blocked_at_push, server_message_queue >>
  /\ UNCHANGED << vLog, vCall, vPop, vConn, vFunc, quitting, vIds, qlock, local_queue, fmt_before,
                  ret, dispatched, vCtx, vSrv, pc, vNet, failure, dlog >>

\* g_main_context_iteration (g_main_context_get_thread_default (), TRUE) in the
\* constructing thread: client_context.  (In the server thread it is IterBegin.)
PopIterClient ==
  /\ failure = "none"
  /\ pc["main"] = "pop_iter"
  /\ client_wake
  /\ client_wake' = FALSE
  /\ pc' = [pc EXCEPT !["main"] = "pop_try"]
  /\ UNCHANGED << third, vLog, vCall, vPop, vConn, vFunc, quitting, vIds, vQueue, vPush, server_sources,
                  server_wake, vSrv, vNet, failure, dlog >>

\* --------------------------------- own_name_cb / export_object_cb
\* g_bus_own_name_on_connection (queue->server_connection, ..): a fresh
\* non-zero ID, or 0 from its precondition check when the connection pointer
\* has been cleared.
\* Variant: every call hands out the same ID.
OwnNameCbSameId(caller) ==
  LET id == IF server_connection THEN 1 ELSE 0
  IN /\ bus_names' = IF id # 0 THEN bus_names \cup {id} ELSE bus_names
     /\ next_name_id' = IF id # 0 THEN next_name_id + 1 ELSE next_name_id
     /\ locals' = [locals EXCEPT ![caller] = [id |-> id, error |-> FALSE, path |-> << >>]]

own_name_cb(caller) ==
  LET id == IF server_connection THEN next_name_id ELSE 0
  IN /\ bus_names' = IF id # 0 THEN bus_names \cup {id} ELSE bus_names
     /\ next_name_id' = IF id # 0 THEN next_name_id + 1 ELSE next_name_id
     /\ locals' = [locals EXCEPT ![caller] = [id |-> id, error |-> FALSE, path |-> << >>]]

\* g_dbus_connection_register_object: an error when the path is already
\* registered, 0 without error when the connection pointer has been cleared.
export_object_cb(caller, path) ==
  LET exists == \E o \in bus_objects : o[2] = path
      id == IF server_connection /\ ~exists THEN next_object_id ELSE 0
  IN /\ bus_objects' = IF id # 0 THEN bus_objects \cup {<< id, path >>} ELSE bus_objects
     /\ next_object_id' = IF id # 0 THEN next_object_id + 1 ELSE next_object_id
     /\ locals' = [locals EXCEPT ![caller] =
                     [id |-> id, error |-> (server_connection /\ exists), path |-> path]]

\* A callback marshalled with g_main_context_invoke_full from the main thread
\* is dispatched by an iteration of server_context.
DispatchInvoke ==
  /\ failure = "none"
  /\ iter.on
  /\ iter.batch # << >>
  /\ Head(iter.batch)[1] \in {"own_name_cb", "export_object_cb"}
  /\ iter' = [iter EXCEPT !.batch = Tail(@), !.did = TRUE]
  /\ IF Head(iter.batch)[1] = "own_name_cb"
       THEN own_name_cb("main") /\ UNCHANGED << bus_objects, next_object_id >>
       ELSE export_object_cb("main", locals["main"].path) /\ UNCHANGED << bus_names, next_name_id >>
  /\ UNCHANGED << third, vLog, vCall, vPop, server_thread, spc, sf_local, func_calls, vConn, vFunc, quitting,
                  name_ids, object_ids, lock, vQueue, vPush, vCtx, pc, vNet,
                  failure, dlog >>

\* Registrations requested and not yet executed by their callback.
NamesInFlight ==
  IF pc["main"] = "own_wait" /\ locals["main"].id = 0 THEN 1 ELSE 0
ObjectsInFlight ==
  IF pc["main"] = "exp_wait" /\ locals["main"].id = 0 /\ ~locals["main"].error
    THEN 1 ELSE 0

\* ------------------------------ gt_dbus_queue_own_name (lines 803-835)
\* Variant: the callback is always called in place, in the calling thread.
InvokeInPlaceAlways(t) == TRUE

\* g_main_context_invoke_full (self->server_context, ..) calls the callback
\* in place iff the caller's thread-default context is server_context (and
\* it can acquire it): only in the server thread.
InvokeInPlace(t) == t = "server"

\* g_main_context_invoke_full: the server thread (thread default =
\* server_context, which it can acquire) runs the callback in place; any
\* other thread attaches an idle source to server_context.
gt_dbus_queue_own_name(t, limit) ==
  /\ CanCall(t)
  /\ server_thread
  /\ next_name_id + NamesInFlight <= limit
  /\ pc' = [pc EXCEPT ![t] = "own_wait"]
  /\ IF InvokeInPlace(t)
       THEN own_name_cb(t) /\ UNCHANGED << server_sources, server_wake >>
       ELSE /\ locals' = [locals EXCEPT ![t] = [id |-> 0, error |-> FALSE, path |-> << >>]]
            /\ server_sources' = Append(server_sources, << "own_name_cb" >>)
            /\ server_wake' = TRUE
            /\ UNCHANGED << bus_names, next_name_id >>
  /\ UNCHANGED << third, vLog, vCall, vPop, vConn, vFunc, quitting, name_ids, object_ids, lock, bus_objects,
                  next_object_id, vQueue, vPush, client_wake, vSrv, vNet, failure, dlog >>

\* while ((id = g_atomic_int_get (&data.id)) == 0); then append under the lock
OwnNameWait(t) ==
  /\ Running(t)
  /\ pc[t] = "own_wait"
  /\ locals[t].id # 0
  /\ lock = "none"
  /\ name_ids' = Append(name_ids, locals[t].id)
  /\ pc' = [pc EXCEPT ![t] = "ready"]
  /\ locals' = [locals EXCEPT ![t] = NoReg]
  /\ UNCHANGED << third, vLog, vCall, vPop, vConn, vFunc, quitting, object_ids, lock, bus_names, bus_objects,
                  next_name_id, next_object_id, vQueue, vPush, vCtx, vSrv,
                  vNet, failure, dlog >>

\* -------------------------- gt_dbus_queue_export_object (lines 941-996)
\* g_variant_is_object_path: '/' first, then elements of [A-Za-z0-9_]
\* separated by single '/', no trailing '/' except for the root path.
PathChars ==
  {"a", "b", "c", "d", "e", "f", "g", "h", "i", "j", "k", "l", "m", "n", "o", "p",
   "q", "r", "s", "t", "u", "v", "w", "x", "y", "z", "A", "B", "C", "D", "E", "F",
   "G", "H", "I", "J", "K", "L", "M", "N", "O", "P", "Q", "R", "S", "T", "U", "V",
   "W", "X", "Y", "Z", "0", "1", "2", "3", "4", "5", "6", "7", "8", "9", "_"}
IsObjectPath(path) ==
  /\ Len(path) >= 1
  /\ path[1] = "/"
  /\ \A i \in 2..Len(path) :
       IF path[i] = "/" THEN path[i - 1] # "/" /\ i # Len(path)
       ELSE path[i] \in PathChars

\* g_return_val_if_fail (object_path != NULL && g_variant_is_object_path (..), 0)
\* logs a critical and returns 0 with *error untouched.
gt_dbus_queue_export_object(t, path, limit) ==
  /\ CanCall(t)
  /\ server_thread
  /\ next_object_id + ObjectsInFlight <= limit
  /\ IF ~IsObjectPath(path)
       THEN /\ returned' = << "export_object", 0 >>
            /\ UNCHANGED << vLink, pc, locals, server_sources, server_wake,
                            bus_objects, next_object_id >>
       ELSE /\ pc' = [pc EXCEPT ![t] = "exp_wait"]
            /\ IF InvokeInPlace(t)
                 THEN /\ export_object_cb(t, path)
                      /\ UNCHANGED << server_sources, server_wake >>
                 ELSE /\ locals' = [locals EXCEPT ![t] = [id |-> 0, error |-> FALSE, path |-> path]]
                      /\ server_sources' = Append(server_sources, << "export_object_cb" >>)
                      /\ server_wake' = TRUE
                      /\ UNCHANGED << bus_objects, next_object_id >>
            /\ UNCHANGED vConn
  /\ UNCHANGED << third, vLog, vCall, vPop, vFunc, quitting, name_ids, object_ids, lock, bus_names,
                  next_name_id, vQueue, vPush, client_wake, vSrv, vNet, failure, dlog >>

\* Variant: the ID is tracked whether or not the registration failed.
ExportObjectWaitIgnoringError(t) ==
  /\ Running(t)
  /\ pc[t] = "exp_wait"
  /\ (locals[t].id # 0 \/ locals[t].error)
  /\ lock = "none"
  /\ object_ids' = Append(object_ids, locals[t].id)
  /\ pc' = [pc EXCEPT ![t] = "ready"]
  /\ locals' = [locals EXCEPT ![t] = NoReg]
  /\ UNCHANGED << third, vLog, vCall, vPop, vConn, vFunc, quitting, name_ids, lock, bus_names, bus_objects,
                  next_name_id, next_object_id, vQueue, vPush, vCtx, vSrv,
                  vNet, failure, dlog >>

\* if (local_error != NULL) { g_propagate_error (..); return 0; } .. return id;
ExportReturn(t) ==
  [id |-> IF locals[t].error THEN 0 ELSE locals[t].id, error |-> locals[t].error]

\* while (data.id == 0 && data.error == NULL) g_cond_wait (..); then either
\* propagate the error and return 0, or append the ID under the lock
ExportObjectWait(t) ==
  /\ Running(t)
  /\ pc[t] = "exp_wait"
  /\ (locals[t].id # 0 \/ locals[t].error)
  /\ IF locals[t].error
       THEN UNCHANGED object_ids
       ELSE /\ lock = "none"
            /\ object_ids' = Append(object_ids, locals[t].id)
  /\ pc' = [pc EXCEPT ![t] = "ready"]
  /\ locals' = [locals EXCEPT ![t] = NoReg]
  /\ UNCHANGED << third, vLog, vCall, vPop, vConn, vFunc, quitting, name_ids, lock, bus_names, bus_objects,
                  next_name_id, next_object_id, vQueue, vPush, vCtx, vSrv,
                  vNet, failure, dlog >>

\* g_array_remove_index_fast: the last element takes the place of element i
RemoveIndexFast(arr, i) ==
  [k \in 1..(Len(arr) - 1) |-> IF k = i THEN arr[Len(arr)] ELSE arr[k]]

IndexOf(arr, id) == CHOOSE i \in 1..Len(arr) : arr[i] = id

\* ---------------------------- gt_dbus_queue_unown_name (lines 851-880)
\* g_return_if_fail (self->server_thread != NULL); g_return_if_fail (id != 0):
\* a critical is logged and the call returns.
gt_dbus_queue_unown_name(t, id) ==
  /\ CanCall(t)
  /\ IF ~server_thread \/ id = 0
       THEN /\ returned' = << "unown_name" >>
            /\ UNCHANGED << name_ids, locals, pc, failure >>
       ELSE /\ lock = "none"
            /\ UNCHANGED returned
            /\ IF id \in Range(name_ids)
                 THEN /\ name_ids' = RemoveIndexFast(name_ids, IndexOf(name_ids, id))
                      /\ locals' = [locals EXCEPT ![t] = [id |-> id, error |-> FALSE, path |-> << >>]]
                      /\ pc' = [pc EXCEPT ![t] = "unown_bus"]
                      /\ UNCHANGED failure
                 ELSE /\ failure' = "unown_name_not_found"
                      /\ UNCHANGED << name_ids, locals, pc >>
  /\ UNCHANGED << third, vLog, vCall, vPop, vLink, vFunc, quitting, object_ids, lock, bus_names, bus_objects,
                  next_name_id, next_object_id, vQueue, vPush, vCtx, vSrv, vNet, dlog >>

\* g_bus_unown_name (id), outside the lock
UnownNameBus(t) ==
  /\ Running(t)
  /\ pc[t] = "unown_bus"
  /\ bus_names' = bus_names \ {locals[t].id}
  /\ pc' = [pc EXCEPT ![t] = "ready"]
  /\ locals' = [locals EXCEPT ![t] = NoReg]
  /\ UNCHANGED << third, vLog, vCall, vPop, vConn, vFunc, quitting, name_ids, object_ids, lock, bus_objects,
                  next_name_id, next_object_id, vQueue, vPush, vCtx, vSrv,
                  vNet, failure, dlog >>

\* ---------------------- gt_dbus_queue_unexport_object (lines 1012-1046)
gt_dbus_queue_unexport_object(t, id) ==
  /\ CanCall(t)
  /\ IF ~server_thread \/ id = 0
       THEN /\ returned' = << "unexport_object" >>
            /\ UNCHANGED << object_ids, locals, pc, failure >>
       ELSE /\ lock = "none"
            /\ UNCHANGED returned
            /\ IF id \in Range(object_ids)
                 THEN /\ object_ids' = RemoveIndexFast(object_ids, IndexOf(object_ids, id))
                      /\ locals' = [locals EXCEPT ![t] = [id |-> id, error |-> FALSE, path |-> << >>]]
                      /\ pc' = [pc EXCEPT ![t] = "unexp_bus"]
                      /\ UNCHANGED failure
                 ELSE /\ failure' = "unexport_object_not_found"
                      /\ UNCHANGED << object_ids, locals, pc >>
  /\ UNCHANGED << third, vLog, vCall, vPop, vLink, vFunc, quitting, name_ids, lock, bus_names, bus_objects,
                  next_name_id, next_object_id, vQueue, vPush, vCtx, vSrv, vNet, dlog >>

\* was_registered = g_dbus_connection_unregister_object (self->server_connection, id);
\* g_assert (was_registered).  When disconnect has cleared
\* self->server_connection meanwhile the call gets NULL and returns FALSE.
UnexportObjectBus(t) ==
  /\ Running(t)
  /\ pc[t] = "unexp_bus"
  /\ IF server_connection /\ \E o \in bus_objects : o[1] = locals[t].id
       THEN /\ bus_objects' = {o \in bus_objects : o[1] # locals[t].id}
            /\ pc' = [pc EXCEPT ![t] = "ready"]
            /\ locals' = [locals EXCEPT ![t] = NoReg]
            /\ UNCHANGED failure
       ELSE /\ failure' = "unexport_object_was_not_registered"
            /\ UNCHANGED << bus_objects, pc, locals >>
  /\ UNCHANGED << third, vLog, vCall, vPop, vConn, vFunc, quitting, name_ids, object_ids, lock, bus_names,
                  next_name_id, next_object_id, vQueue, vPush, vCtx, vSrv,
                  vNet, dlog >>

\* ------------------------ gt_dbus_queue_set_server_func (lines 1067-1085)
\* g_atomic_pointer_set (&self->server_func_data, user_data)
gt_dbus_queue_set_server_func(t, func) ==
  /\ CanCall(t)
  /\ server_func_data' = func
  /\ locals' = [locals EXCEPT ![t] = [id |-> func, error |-> FALSE, path |-> << >>]]
  /\ pc' = [pc EXCEPT ![t] = "ssf_cas"]
  /\ UNCHANGED << third, vLog, vCall, vPop, vConn, server_func, installs, quitting, name_ids, object_ids, lock,
                  bus_names, bus_objects, next_name_id, next_object_id, vQueue, vPush,
                  vCtx, vSrv, vNet, failure, dlog >>

\* Variant: a plain store, which always succeeds.
PlainStore(current, func) == TRUE

\* g_atomic_pointer_compare_and_exchange (&self->server_func, NULL, func)
CompareAndExchange(current, func) == current = 0

\* swapped = compare-and-exchange; g_assert (swapped)
SetServerFuncCas(t) ==
  /\ Running(t)
  /\ pc[t] = "ssf_cas"
  /\ IF CompareAndExchange(server_func, locals[t].id)
       THEN /\ server_func' = locals[t].id
            /\ installs' = installs + 1
            /\ pc' = [pc EXCEPT ![t] = "ssf_wake"]
            /\ UNCHANGED failure
       ELSE /\ failure' = "set_server_func_twice"
            /\ UNCHANGED << server_func, installs, pc >>
  /\ UNCHANGED << third, vLog, vCall, vPop, vConn, server_func_data, quitting, vIds, vQueue, vPush, vCtx, vSrv,
                  vNet, dlog >>

\* g_main_context_wakeup (self->server_context)
SetServerFuncWake(t) ==
  /\ Running(t)
  /\ pc[t] = "ssf_wake"
  /\ server_wake' = TRUE
  /\ pc' = [pc EXCEPT ![t] = "ready"]
  /\ locals' = [locals EXCEPT ![t] = NoReg]
  /\ UNCHANGED << third, vLog, vCall, vPop, vConn, vFunc, quitting, name_ids, object_ids, lock, bus_names,
                  bus_objects, next_name_id, next_object_id, vQueue, vPush, server_sources,
                  client_wake, vSrv, vNet, failure, dlog >>

\* ------------------------ gt_dbus_queue_format_messages (lines 1374-1417)
\* g_async_queue_lock
gt_dbus_queue_format_messages(t) ==
  /\ CanCall(t)
  /\ qlock = "none"
  /\ qlock' = t
  /\ local_queue' = [local_queue EXCEPT ![t] = << >>]
  /\ fmt_before' = [fmt_before EXCEPT ![t] = server_message_queue]
  /\ pc' = [pc EXCEPT ![t] = "fmt_drain"]
  /\ UNCHANGED << third, vLog, vCall, vPop, vConn, vFunc, quitting, vIds, server_message_queue, popped, ret,
                  vPush, vCtx, vSrv, vNet, failure, dlog >>

\* Variant: reassembly from the last element down.
ReassembleReversed(local) == [i \in 1..Len(local) |-> local[Len(local) + 1 - i]]

\* The order in which the reassembly loop pushes local_queue back (i = 0..len-1).
Reassemble(local) == local

\* while ((message = g_async_queue_try_pop_unlocked (..)) != NULL) g_ptr_array_add (..)
FormatDrain(t) ==
  /\ Running(t)
  /\ pc[t] = "fmt_drain"
  /\ IF server_message_queue # << >>
       THEN /\ local_queue' = [local_queue EXCEPT ![t] = Append(@, Head(server_message_queue))]
            /\ server_message_queue' = Tail(server_message_queue)
            /\ pc' = pc
       ELSE /\ local_queue' = [local_queue EXCEPT ![t] = Reassemble(@)]
            /\ pc' = [pc EXCEPT ![t] = "fmt_push"]
            /\ UNCHANGED server_message_queue
  /\ UNCHANGED << third, vLog, vCall, vPop, vConn, vFunc, quitting, vIds, qlock, fmt_before, popped, ret,
                  vPush, vCtx, vSrv, vNet, failure, dlog >>

\* for (i = 0; i < local_queue->len; i++) g_async_queue_push_unlocked (..);
\* g_async_queue_unlock
FormatPush(t) ==
  /\ Running(t)
  /\ pc[t] = "fmt_push"
  /\ IF local_queue[t] # << >>
       THEN /\ server_message_queue' = Append(server_message_queue, Head(local_queue[t]))
            /\ local_queue' = [local_queue EXCEPT ![t] = Tail(@)]
            /\ UNCHANGED << qlock, pc, fmt_before >>
       ELSE /\ qlock' = "none"
            /\ pc' = [pc EXCEPT ![t] = "ready"]
            /\ fmt_before' = [fmt_before EXCEPT ![t] = << >>]
            /\ UNCHANGED << server_message_queue, local_queue >>
  /\ UNCHANGED << third, vLog, vCall, vPop, vConn, vFunc, quitting, vIds, popped, ret,
                  vPush, vCtx, vSrv, vNet, failure, dlog >>

\* --------------------------- gt_dbus_queue_disconnect (lines 709-757)
\* Variant: the thread is joined without clearing self->server_thread.
DisconnectKeepsThread ==
  << "close_client", "lock", "unown_names", "unexport_objects", "unlock",
     "remove_filter", "close_server", "bus_down", "set_quitting", "wake_server",
     "join" >>

\* Variant: the lock is released before the unregister calls.
DisconnectUnlocksEarly ==
  << "close_client", "lock", "unlock", "unown_names", "unexport_objects",
     "remove_filter", "close_server", "bus_down", "set_quitting", "wake_server",
     "steal_thread", "join" >>

\* The statements of disconnect after the optional emptiness assertion.
\* g_thread_join (g_steal_pointer (&self->server_thread)): the argument is
\* evaluated, clearing the field, before the join blocks.
DisconnectSteps ==
  << "close_client", "lock", "unown_names", "unexport_objects", "unlock",
     "remove_filter", "close_server", "bus_down", "set_quitting", "wake_server",
     "steal_thread", "join" >>

\* Variant: the queue is never examined, whatever the flag.
DisconnectNeverAsserts(assert_queue_empty) ==
  /\ CanCall("main")
  /\ server_thread
  /\ pc' = [pc EXCEPT !["main"] = "disc"]
  /\ dlog' = << >>
  /\ UNCHANGED << third, vLog, vCall, vPop, vConn, vFunc, quitting, vIds, vQueue, vPush, vCtx, vSrv, vNet,
                  failure >>

\* g_return_if_fail (self->server_thread != NULL);
\* if (assert_queue_empty) gt_dbus_queue_assert_no_messages (self);
gt_dbus_queue_disconnect(assert_queue_empty) ==
  /\ CanCall("main")
  /\ server_thread
  /\ assert_queue_empty => qlock = "none"
  /\ IF assert_queue_empty /\ HasMessages
       THEN /\ failure' = "assert_no_messages"
            /\ UNCHANGED << pc, dlog >>
       ELSE /\ pc' = [pc EXCEPT !["main"] = "disc"]
            /\ dlog' = << >>
            /\ UNCHANGED failure
  /\ UNCHANGED << third, vLog, vCall, vPop, vConn, vFunc, quitting, vIds, vQueue, vPush, vCtx, vSrv, vNet >>

DisconnectStep ==
  /\ failure = "none"
  /\ pc["main"] \in {"disc", "free_disc"}
  /\ LET step == DisconnectSteps[Len(dlog) + 1]
     IN /\ dlog' = IF step = "join" THEN << >> ELSE Append(dlog, step)
        /\ step = "lock" => lock = "none"
        /\ step = "join" => spc = "exited"
        /\ client_connection' = IF step = "close_client" THEN FALSE ELSE client_connection
        /\ lock' = IF step = "lock" THEN "main"
                   ELSE IF step = "unlock" THEN "none" ELSE lock
        /\ name_ids' = IF step = "unown_names" THEN << >> ELSE name_ids
        /\ bus_names' = IF step = "unown_names" THEN bus_names \ Range(name_ids)
                        ELSE bus_names
        /\ object_ids' = IF step = "unexport_objects" THEN << >> ELSE object_ids
        /\ bus_objects' = IF step = "unexport_objects"
                            THEN {o \in bus_objects : o[1] \notin Range(object_ids)}
                            ELSE bus_objects
        /\ server_filter_id' = IF step = "remove_filter" THEN 0 ELSE server_filter_id
        /\ server_connection' = IF step = "close_server" THEN FALSE ELSE server_connection
        /\ quitting' = IF step = "set_quitting" THEN TRUE ELSE quitting
        /\ server_wake' = IF step = "wake_server" THEN TRUE ELSE server_wake
        /\ server_thread' = IF step = "steal_thread" THEN FALSE ELSE server_thread
        /\ spc' = IF step = "join" THEN "none" ELSE spc
        /\ pc' = IF step = "join"
                   THEN [pc EXCEPT !["main"] = IF pc["main"] = "free_disc"
                                                 THEN "free_tail" ELSE "ready"]
                   ELSE pc
        /\ sf_local' = IF step = "join" THEN [func |-> 0, data |-> 0] ELSE sf_local
  /\ UNCHANGED << third, vLog, vCall, vPop, n_connects, returned, vFunc, next_name_id, next_object_id, locals, vQueue,
                  vPush, server_sources, client_wake, func_calls, iter,
                  vNet, failure >>

\* ------------------------------------- calls of the tests and their replies
Digits == << "0", "1", "2", "3", "4", "5", "6", "7", "8", "9" >>

\* The %u conversion of g_strdup_printf.
RECURSIVE Decimal(_)
Decimal(n) ==
  IF n < 10 THEN << Digits[n + 1] >>
  ELSE Decimal(n \div 10) \o << Digits[(n % 10) + 1] >>

\* g_strdup_printf ("/com/example/Test/Object%u", id)
ObjectPathOf(id) == ManagerPath \o << "/" >> \o Decimal(id)

\* fixture->valid_id, and the objects bus_set_up exports
valid_id == 1
ServicePaths == {ManagerPath, ObjectPathOf(valid_id)}

\* The reply series_server_cb sends on a popped invocation.
ServiceReply(c) ==
  IF c.method = "GetObjectPath" THEN << "o", ObjectPathOf(c.parameters[2]) >>
  ELSE << "a{sv}", "hello", 11 >>

\* g_dbus_connection_call / g_dbus_connection_call_sync on the client
\* connection, or a call from another connection to the same bus.  mode:
\* "sync" blocks inside g_dbus_connection_call_sync, "async" runs
\* `while (result == NULL) g_main_context_iteration (NULL, TRUE);`, "nowait"
\* returns to the test at once.
ClientSend(c, mode, limit) ==
  /\ CanCall("main")
  /\ client_connection
  /\ next_serial <= limit
  /\ c.async = (mode # "sync")
  /\ transit' = Append(transit, next_serial)
  /\ next_serial' = next_serial + 1
  /\ sent' = Append(sent, c)
  /\ pc' = [pc EXCEPT !["main"] = CASE mode = "sync" -> "call_sync"
                                    [] mode = "async" -> "call_async"
                                    [] OTHER -> "ready"]
  /\ locals' = [locals EXCEPT !["main"] =
                  IF mode = "nowait" THEN NoReg
                  ELSE [id |-> next_serial, error |-> FALSE, path |-> << >>]]
  /\ UNCHANGED << third, vLog, replied, results, vPop, vConn, vFunc, quitting, name_ids,
                  object_ids, lock, bus_names, bus_objects, next_name_id,
                  next_object_id, vQueue, vPush, vCtx, vSrv, failure, dlog >>

\* The invocation the test replies on: the one its pop returned.
ReplyTarget(t) == invocation[t]

\* g_dbus_method_invocation_return_value (invocation, ..) in the test's
\* server code; the call takes ownership of the invocation.  Nothing is sent
\* on a closed connection.
Reply(t) ==
  /\ CanCall(t)
  /\ ReplyTarget(t) # 0
  /\ replied[ReplyTarget(t)] = NoReply
  /\ replied' = [replied EXCEPT ![ReplyTarget(t)] =
                   IF server_connection THEN ServiceReply(sent[ReplyTarget(t)])
                   ELSE << "closed" >>]
  /\ invocation' = [invocation EXCEPT ![t] = 0]
  /\ UNCHANGED << third, vLog, sent, results, popcall, vConn, vFunc, quitting, vIds, vQueue,
                  vPush, vCtx, vSrv, pc, vNet, failure, dlog >>

\* The GDBus worker of the calling connection receives the reply; for an
\* asynchronous call the GAsyncReadyCallback is scheduled in the caller's
\* context.
ReplyArrive ==
  /\ failure = "none"
  /\ client_connection
  /\ \E m \in 1..Len(sent) :
       /\ replied[m] \notin {NoReply, << "closed" >>}
       /\ results[m] = NoReply
       /\ results' = [results EXCEPT ![m] = replied[m]]
       /\ client_wake' = IF sent[m].async /\ sent[m].sender = "client"
                           THEN TRUE ELSE client_wake
  /\ UNCHANGED << third, vLog, sent, replied, vPop, vConn, vFunc, quitting, vIds, vQueue, vPush,
                  server_sources, server_wake, vSrv, pc, vNet, failure, dlog >>

\* g_dbus_connection_call_sync returns once the reply is there.
CallSyncReturn ==
  /\ failure = "none"
  /\ pc["main"] = "call_sync"
  /\ results[locals["main"].id] # NoReply
  /\ pc' = [pc EXCEPT !["main"] = "ready"]
  /\ locals' = [locals EXCEPT !["main"] = NoReg]
  /\ UNCHANGED << third, vLog, vCall, vPop, vConn, vFunc, quitting, name_ids, object_ids, lock,
                  bus_names, bus_objects, next_name_id, next_object_id, vQueue,
                  vPush, vCtx, vSrv, vNet, failure, dlog >>

\* while (result == NULL) g_main_context_iteration (NULL, TRUE);
\* async_result_cb runs inside the iteration.
CallAsyncIter ==
  /\ failure = "none"
  /\ pc["main"] = "call_async"
  /\ client_wake
  /\ client_wake' = FALSE
  /\ IF results[locals["main"].id] # NoReply
       THEN /\ pc' = [pc EXCEPT !["main"] = "ready"]
            /\ locals' = [locals EXCEPT !["main"] = NoReg]
       ELSE UNCHANGED << pc, locals >>
  /\ UNCHANGED << third, vLog, vCall, vPop, vConn, vFunc, quitting, name_ids, object_ids, lock,
                  bus_names, bus_objects, next_name_id, next_object_id, vQueue,
                  vPush, server_sources, server_wake, vSrv, vNet, failure, dlog >>

\* ------------------- gt_dbus_queue_match_client_message (lines 1311-1341)
\* g_variant_new_parsed: the value a parameters string denotes.  An
\* unannotated integer parses as int32.
ParameterStrings == {"(1,)", "(uint32 1,)", "(uint32 2,)"}
g_variant_new_parsed(str) ==
  CASE str = "(1,)" -> << "i", 1 >>
    [] str = "(uint32 1,)" -> << "u", 1 >>
    [] str = "(uint32 2,)" -> << "u", 2 >>

\* g_dbus_connection_get_unique_name (self->client_connection)
ClientUniqueName == "client"

\* Variant: the sender is not compared.
MatchAnySender(m, path, interface, method, params) ==
  /\ IsObjectPath(path)
  /\ sent[m].path = path
  /\ sent[m].interface = interface
  /\ sent[m].method = method
  /\ (params = "NULL" \/ sent[m].parameters = g_variant_new_parsed(params))

\* The value returned for invocation m on a connected queue.  The expected
\* interface and method names are always well-formed here, so only the
\* g_return_val_if_fail on the object path can stop the comparison.
gt_dbus_queue_match_client_message(m, path, interface, method, params) ==
  /\ IsObjectPath(path)
  /\ sent[m].sender = ClientUniqueName
  /\ sent[m].path = path
  /\ sent[m].interface = interface
  /\ sent[m].method = method
  /\ (params = "NULL" \/ sent[m].parameters = g_variant_new_parsed(params))

\* The test calls gt_dbus_queue_match_client_message on the invocation it
\* holds.  Without a client connection
\* g_dbus_connection_get_unique_name (NULL) returns NULL after a critical and
\* g_str_equal dereferences it.
MatchCall(t, path, interface, method, params) ==
  /\ CanCall(t)
  /\ invocation[t] # 0
  /\ IF IsObjectPath(path) /\ ~client_connection
       THEN /\ failure' = "match_null_connection"
            /\ UNCHANGED returned
       ELSE /\ returned' = << "match", gt_dbus_queue_match_client_message(
                                        invocation[t], path, interface, method, params) >>
            /\ UNCHANGED failure
  /\ UNCHANGED << third, vLog, vCall, vPop, vLink, vFunc, quitting, vIds, vQueue, vPush, vCtx,
                  vSrv, vNet, pc, dlog >>

\* ---------------- gt_dbus_queue_assert_pop_message_impl (lines 1444-1504)
\* The g_return_val_if_fail on the expected path returns NULL; a pop which
\* returns FALSE (no server thread) fails the "saw no messages" assertion;
\* otherwise the blocking pop starts.
gt_dbus_queue_assert_pop_message(t, path, interface, method) ==
  /\ CanCall(t)
  /\ IF ~IsObjectPath(path)
       THEN /\ returned' = << "assert_pop_message", 0 >>
            /\ UNCHANGED << failure, pc, ret, popcall >>
       ELSE IF ~server_thread
       THEN /\ failure' = "assert_pop_no_message"
            /\ UNCHANGED << returned, pc, ret, popcall >>
       ELSE /\ popcall' = [popcall EXCEPT ![t] =
                             [out |-> TRUE, assert |-> TRUE, path |-> path,
                              interface |-> interface, method |-> method]]
            /\ ret' = [ret EXCEPT ![t] = "none"]
            /\ pc' = [pc EXCEPT ![t] = "pop_try"]
            /\ UNCHANGED << returned, failure >>
  /\ UNCHANGED << third, vLog, vCall, invocation, vLink, vFunc, quitting, vIds,
                  server_message_queue, qlock, local_queue, fmt_before, popped,
                  vPush, vCtx, vSrv, vNet, dlog >>

\* After the pop: gt_dbus_queue_match_client_message (.., NULL); a mismatch
\* is an assertion failure, a match returns the invocation to the caller.
AssertPopMatch(t) ==
  /\ Running(t)
  /\ pc[t] = "apm_match"
  /\ IF ~client_connection
       THEN /\ failure' = "match_null_connection"
            /\ UNCHANGED << pc, popcall >>
       ELSE IF gt_dbus_queue_match_client_message(invocation[t], popcall[t].path,
                   popcall[t].interface, popcall[t].method, "NULL")
       THEN /\ pc' = [pc EXCEPT ![t] = "ready"]
            /\ popcall' = [popcall EXCEPT ![t] = NoPop]
            /\ UNCHANGED failure
       ELSE /\ failure' = "assert_pop_mismatch"
            /\ UNCHANGED << pc, popcall >>
  /\ UNCHANGED << third, vLog, vCall, invocation, vConn, vFunc, quitting, vIds, vQueue, vPush,
                  vCtx, vSrv, vNet, dlog >>

\* The assertions of gt_dbus_queue_free after the optional disconnect, in
\* the order of the code; "none" when all of them pass:
\*   g_assert (self->object_ids->len == 0);
\*   g_assert (self->name_ids->len == 0);
\*   g_assert (g_async_queue_try_pop (self->server_message_queue) == NULL);
\*   g_assert (!g_main_context_iteration (self->server_context, FALSE));
FreeAssertions ==
  IF object_ids # << >> THEN "free_object_ids"
  ELSE IF name_ids # << >> THEN "free_name_ids"
  ELSE IF server_message_queue # << >> THEN "free_message_queue"
  ELSE IF server_sources # << >> THEN "free_server_context"
  ELSE "none"

\* gt_dbus_queue_free: if (self->server_thread != NULL)
\* gt_dbus_queue_disconnect (self, TRUE); then the assertions and the
\* release of the fields.  On a queue without a server thread no other
\* thread uses the queue and the rest of the function is one step.
gt_dbus_queue_free ==
  /\ CanCall("main")
  /\ IF server_thread
       THEN /\ qlock = "none"
            /\ IF HasMessages
                 THEN /\ failure' = "assert_no_messages"
                      /\ UNCHANGED << pc, dlog >>
                 ELSE /\ pc' = [pc EXCEPT !["main"] = "free_disc"]
                      /\ dlog' = << >>
                      /\ UNCHANGED failure
       ELSE /\ failure' = FreeAssertions
            /\ pc' = IF FreeAssertions = "none"
                       THEN [pc EXCEPT !["main"] = "freed"] ELSE pc
            /\ UNCHANGED dlog
  /\ UNCHANGED << third, vLog, vCall, vPop, vConn, vFunc, quitting, vIds, vQueue, vPush, vCtx, vSrv, vNet >>

\* The rest of gt_dbus_queue_free once its disconnect has joined the thread.
FreeTail ==
  /\ failure = "none"
  /\ pc["main"] = "free_tail"
  /\ failure' = FreeAssertions
  /\ pc' = IF FreeAssertions = "none" THEN [pc EXCEPT !["main"] = "freed"] ELSE pc
  /\ UNCHANGED << third, vLog, vCall, vPop, vConn, vFunc, quitting, vIds, vQueue, vPush, vCtx, vSrv, vNet,
                  dlog >>

\* --------------------------------------------------------- GtSignalLogger
\* G_OBJECT_TYPE_NAME (obj)
TypeName(obj) == IF obj = 1 THEN "GtA" ELSE "GtB"

\* gt_signal_logger_get_n_emissions: self->log->len
gt_signal_logger_get_n_emissions == Len(log)

\* Variant: the invalidate notifier leaves signal_id alone.
InvalidateKeepsId(c) == c

\* gt_logged_closure_invalidate
gt_logged_closure_invalidate(c) == [c EXCEPT !.signal_id = 0]

\* gt_logged_closure_finalize: g_assert (self->signal_id == 0)
gt_logged_closure_finalize(c) ==
  [c EXCEPT !.finalized = IF c.signal_id = 0 THEN "ok" ELSE "assert"]

\* g_closure_invalidate: once per closure, the invalidate notifiers run: that
\* of the closure, and that of the signal handler, which disconnects it.
g_closure_invalidate(c) ==
  IF c.is_invalid THEN c
  ELSE gt_logged_closure_invalidate([c EXCEPT !.is_invalid = TRUE, !.handler = FALSE])

\* The references on closure number i: self->closures (g_ptr_array_add in
\* gt_logged_closure_new), its signal handler, and every emission which was
\* captured by it (g_closure_ref in gt_logged_closure_marshal).
RefCount(cl, i, lg, hd, fr) ==
  (IF fr THEN 0 ELSE 1) + (IF cl[i].handler THEN 1 ELSE 0)
    + Cardinality({k \in 1..Len(lg) : lg[k].closure = i}) + hd[i]

\* g_closure_unref of the last reference: the closure is invalidated, then
\* its finalize notifier runs.
Unreferenced(cl, lg, hd, fr) ==
  [i \in 1..Len(cl) |->
     IF cl[i].finalized = "no" /\ RefCount(cl, i, lg, hd, fr) = 0
       THEN gt_logged_closure_finalize(g_closure_invalidate(cl[i]))
       ELSE cl[i]]

\* No assertion of the logger has failed.
LoggerOk == \A i \in 1..Len(closures) : closures[i].finalized # "assert"

\* gt_signal_logger_connect with gt_logged_closure_new: the closure is added
\* to self->closures and connected; its signal_id is the handler ID.
gt_signal_logger_connect(obj, signal_name) ==
  /\ LoggerOk
  /\ ~lfreed
  /\ obj \in alive
  /\ Len(closures) < MaxClosures
  /\ closures' = Append(closures,
                        [obj |-> obj, obj_type_name |-> TypeName(obj),
                         signal_name |-> signal_name, signal_id |-> Len(closures) + 1,
                         is_invalid |-> FALSE, handler |-> TRUE, finalized |-> "no"])
  /\ UNCHANGED << vDBus, log, emitted, lpopped, lout, vLife >>

\* gt_logged_closure_marshal for closure number c: the first of the
\* param_values, the object instance, is not logged.
gt_logged_closure_marshal(c, param_values) ==
  [closure |-> c,
   params |-> [i \in 1..(Len(param_values) - 1) |-> param_values[i + 1]]]

\* The closures of the logger which a signal emission invokes, in the order
\* they were connected: those whose signal handler is still connected.
Handlers(obj, signal_name) ==
  SelectSeq([i \in 1..Len(closures) |-> i],
            LAMBDA i : /\ closures[i].obj = obj
                       /\ closures[i].signal_name = signal_name
                       /\ closures[i].handler)

\* g_signal_emit on an object: every connected closure is marshalled.
Emit(obj, signal_name, arg) ==
  LET hs == Handlers(obj, signal_name)
  IN /\ LoggerOk
     /\ obj \in alive
     /\ hs # << >>
     /\ Len(emitted) + Len(hs) <= MaxEmissions
     /\ log' = log \o [k \in 1..Len(hs) |->
                         gt_logged_closure_marshal(hs[k], << obj, arg >>)]
     /\ emitted' = emitted \o [k \in 1..Len(hs) |->
                                 [obj |-> obj, signal_name |-> signal_name,
                                  params |-> << arg >>]]
     /\ UNCHANGED << vDBus, closures, lpopped, lout, vLife >>

\* Variant: g_ptr_array_remove_index_fast.
LogRemoveFast(arr) == RemoveIndexFast(arr, 1)

\* g_ptr_array_remove_index (self->log, 0): the elements behind move up.
LogRemoveFirst(arr) == [k \in 1..(Len(arr) - 1) |-> arr[k + 1]]

\* Variant: the out locations are left alone when the log is empty.
EmptyPopKeepsOuts(want) == [lout EXCEPT !.result = "FALSE"]

\* The `self->log->len == 0` branch: every non-NULL location is set to NULL.
EmptyPop(want) ==
  [result |-> "FALSE",
   obj |-> IF "obj" \in want THEN 0 ELSE lout.obj,
   obj_type_name |-> IF "obj_type_name" \in want THEN "NULL" ELSE lout.obj_type_name,
   signal_name |-> IF "signal_name" \in want THEN "NULL" ELSE lout.signal_name,
   emission |-> IF "emission" \in want THEN NullEmission ELSE lout.emission]

\* gt_signal_logger_pop_emission; want: the out locations which are not NULL.
\* The emission goes to the caller through out_emission, or is freed.
gt_signal_logger_pop_emission(want) ==
  /\ LoggerOk
  /\ ~lfreed
  /\ IF Len(log) = 0
       THEN /\ lout' = EmptyPop(want)
            /\ UNCHANGED << log, lpopped, closures, held >>
       ELSE LET emission == log[1]
                closure == closures[emission.closure]
            IN /\ log' = LogRemoveFirst(log)
               /\ lpopped' = Append(lpopped, emission)
               /\ lout' =
                    [result |-> "TRUE",
                     obj |-> IF "obj" \in want THEN closure.obj ELSE lout.obj,
                     obj_type_name |-> IF "obj_type_name" \in want
                                         THEN closure.obj_type_name
                                         ELSE lout.obj_type_name,
                     signal_name |-> IF "signal_name" \in want
                                       THEN closure.signal_name ELSE lout.signal_name,
                     emission |-> IF "emission" \in want THEN emission
                                                         ELSE lout.emission]
               /\ held' = IF "emission" \in want
                            THEN [held EXCEPT ![emission.closure] = @ + 1]
                            ELSE held
               /\ closures' = Unreferenced(closures, log', held', lfreed)
  /\ UNCHANGED << vDBus, emitted, alive, lfreed >>

\* gt_signal_logger_emission_free on a popped emission of closure number c
EmissionFree(c) ==
  /\ LoggerOk
  /\ held[c] > 0
  /\ held' = [held EXCEPT ![c] = @ - 1]
  /\ closures' = Unreferenced(closures, log, held', lfreed)
  /\ UNCHANGED << vDBus, log, emitted, lpopped, lout, alive, lfreed >>

\* The last reference to an object is dropped: its signal handlers are
\* destroyed and their closures unreferenced.
ObjectFinalize(obj) ==
  /\ LoggerOk
  /\ obj \in alive
  /\ alive' = alive \ {obj}
  /\ closures' =
       Unreferenced([i \in 1..Len(closures) |->
                       IF closures[i].obj = obj
                         THEN [closures[i] EXCEPT !.handler = FALSE]
                         ELSE closures[i]],
                    log, held, lfreed)
  /\ UNCHANGED << vDBus, log, emitted, lpopped, lout, lfreed, held >>

\* gt_signal_logger_free: every closure is invalidated, then the two arrays
\* are unreferenced, which frees the logged emissions.
gt_signal_logger_free ==
  /\ LoggerOk
  /\ ~lfreed
  /\ lfreed' = TRUE
  /\ log' = << >>
  /\ closures' =
       Unreferenced([i \in 1..Len(closures) |-> g_closure_invalidate(closures[i])],
                    << >>, held, TRUE)
  /\ UNCHANGED << vDBus, emitted, lpopped, lout, alive, held >>

\* ------------------------------------------------------------------ spec
\* Steps of the GtDBusQueue calls which both threads may make.
QueueApi(t) ==
  \/ gt_dbus_queue_try_pop_message(t)
  \/ gt_dbus_queue_pop_message(t)
  \/ PopTry(t)
  \/ gt_dbus_queue_format_messages(t)
  \/ FormatDrain(t)
  \/ FormatPush(t)

FuncApi(t) ==
  \/ \E f \in UserData : gt_dbus_queue_set_server_func(t, f)
  \/ SetServerFuncCas(t)
  \/ SetServerFuncWake(t)

RegisterApi(t) ==
  \/ gt_dbus_queue_own_name(t, MaxNames)
  \/ OwnNameWait(t)
  \/ \E p \in Paths : gt_dbus_queue_export_object(t, p, MaxObjects)
  \/ ExportObjectWait(t)

UnregisterApi(t) ==
  \/ \E id \in 1..MaxNames : gt_dbus_queue_unown_name(t, id)
  \/ UnownNameBus(t)
  \/ \E id \in 1..MaxObjects : gt_dbus_queue_unexport_object(t, id)
  \/ UnexportObjectBus(t)

ServerStep ==
  \/ ServerLoop1
  \/ ServerReadFunc
  \/ ServerReadData
  \/ ServerFuncReturn
  \/ ServerLoop2
  \/ IterBegin
  \/ gt_dbus_queue_method_call
  \/ DispatchInvoke
  \/ IterEnd

Disconnect ==
  \/ \E a \in BOOLEAN : gt_dbus_queue_disconnect(a)
  \/ DisconnectStep

\* Every operation, from either thread, in any order.
Next ==
  \/ \E okc, oks \in BOOLEAN : gt_dbus_queue_connect(okc, oks, MaxConnects)
  \/ Disconnect
  \/ gt_dbus_queue_free
  \/ FreeTail
  \/ \E t \in Threads : gt_dbus_queue_assert_no_messages(t)
  \/ ClientCall(MaxCalls)
  \/ PopIterClient
  \/ \E t \in Threads : QueueApi(t) \/ FuncApi(t) \/ RegisterApi(t) \/ UnregisterApi(t)
  \/ ServerStep
  \/ Deliver
  \/ Discard

Spec == Init /\ [][Next]_vars

\* A test which connects once, exports objects, sets a server function and
\* exchanges messages; both threads use the queue operations.
NextQueue ==
  \/ ~server_thread /\ gt_dbus_queue_connect(TRUE, TRUE, 1)
  \/ \E p \in Paths : gt_dbus_queue_export_object("main", p, MaxObjects)
  \/ ExportObjectWait("main")
  \/ \E f \in UserData : gt_dbus_queue_set_server_func("main", f)
  \/ SetServerFuncCas("main")
  \/ SetServerFuncWake("main")
  \/ ClientCall(MaxCalls)
  \/ PopIterClient
  \/ \E t \in Threads : QueueApi(t)
  \/ ServerStep
  \/ Deliver
  \/ Discard

SpecQueue == Init /\ [][NextQueue]_vars

\* Scheduling: a thread which is inside a call, or inside the thread function,
\* and can take its next step eventually takes it; a thread waiting for the
\* GAsyncQueue mutex eventually gets it.
ThreadFairness ==
  /\ WF_vars(ServerLoop1 \/ ServerReadFunc \/ ServerReadData \/ ServerLoop2)
  /\ WF_vars(IterBegin)
  /\ SF_vars(gt_dbus_queue_method_call)
  /\ WF_vars(DispatchInvoke)
  /\ WF_vars(IterEnd)
  /\ WF_vars(PopIterClient)
  /\ \A t \in Threads :
       /\ SF_vars(PopTry(t))
       /\ WF_vars(FormatDrain(t))
       /\ WF_vars(FormatPush(t))

FairQueue == SpecQueue /\ ThreadFairness

\* A test which connects, registers, sets a server function from either
\* thread, pops in either thread, disconnects and connects again.
NextLife ==
  \/ ~server_thread /\ gt_dbus_queue_connect(TRUE, TRUE, MaxConnects)
  \/ Disconnect
  \/ \E t \in Threads : FuncApi(t)
  \/ \E t \in Threads : gt_dbus_queue_own_name(t, MaxNames) \/ OwnNameWait(t)
  \/ \E p \in Paths : gt_dbus_queue_export_object("main", p, MaxObjects)
  \/ ExportObjectWait("main")
  \/ ClientCall(MaxLifeCalls)
  \/ \E t \in Threads : gt_dbus_queue_pop_message(t) \/ PopTry(t)
  \/ PopIterClient
  \/ ServerStep
  \/ Deliver
  \/ Discard

SpecLife == Init /\ [][NextLife]_vars

\* Scheduling of the steps inside the other calls; a server function which
\* can return does return.
CallFairness ==
  /\ WF_vars(DisconnectStep)
  /\ WF_vars(ServerFuncReturn)
  /\ \A t \in Threads :
       /\ WF_vars(OwnNameWait(t))
       /\ WF_vars(ExportObjectWait(t))
       /\ WF_vars(SetServerFuncCas(t))
       /\ WF_vars(SetServerFuncWake(t))

FairLife == SpecLife /\ ThreadFairness /\ CallFairness

\* A test which exports from the thread that constructed the queue, sets a
\* server function, pops in either thread and disconnects.
NextShutdown ==
  \/ ~server_thread /\ gt_dbus_queue_connect(TRUE, TRUE, MaxConnects)
  \/ Disconnect
  \/ \E t \in Threads : FuncApi(t)
  \/ \E p \in Paths : gt_dbus_queue_export_object("main", p, MaxObjects)
  \/ ExportObjectWait("main")
  \/ ClientCall(MaxLifeCalls)
  \/ \E t \in Threads : gt_dbus_queue_pop_message(t) \/ PopTry(t)
  \/ PopIterClient
  \/ ServerStep
  \/ Deliver
  \/ Discard

FairShutdown == Init /\ [][NextShutdown]_vars /\ ThreadFairness /\ CallFairness

\* Object paths passed by the registration tests: two well-formed ones and
\* one which does not start with '/'.
RegPaths == Paths \cup {<< "/", "b" >>, << "b" >>}

\* The server thread without any traffic from the client connection.
ServerIdleStep ==
  \/ ServerLoop1
  \/ ServerReadFunc
  \/ ServerReadData
  \/ ServerFuncReturn
  \/ ServerLoop2
  \/ IterBegin
  \/ DispatchInvoke
  \/ IterEnd

\* A test which connects (with any outcome, also when already connected),
\* registers and unregisters names and objects from both threads, and
\* disconnects.
NextConn ==
  \/ \E okc, oks \in BOOLEAN : gt_dbus_queue_connect(okc, oks, MaxConnects)
  \/ Disconnect
  \/ \E t \in Threads : gt_dbus_queue_own_name(t, MaxRegNames) \/ OwnNameWait(t)
  \/ \E t \in Threads, p \in RegPaths : gt_dbus_queue_export_object(t, p, MaxRegObjects)
  \/ \E t \in Threads : ExportObjectWait(t)
  \/ \E t \in Threads, id \in 0..MaxRegNames : gt_dbus_queue_unown_name(t, id)
  \/ \E t \in Threads : UnownNameBus(t)
  \/ \E t \in Threads, id \in 0..MaxRegObjects : gt_dbus_queue_unexport_object(t, id)
  \/ \E t \in Threads : UnexportObjectBus(t)
  \/ FuncApi("main")
  \/ ServerIdleStep

SpecConn == Init /\ [][NextConn]_vars

\* A test which connects, exports from the thread that constructed the
\* queue, lets the client call, pops or not, asserts emptiness, disconnects
\* with either flag and frees the queue.
NextTeardown ==
  \/ ~server_thread /\ gt_dbus_queue_connect(TRUE, TRUE, MaxConnects)
  \/ \E p \in Paths : gt_dbus_queue_export_object("main", p, MaxObjects)
  \/ ExportObjectWait("main")
  \/ ClientCall(MaxCalls)
  \/ gt_dbus_queue_pop_message("main")
  \/ PopTry("main")
  \/ PopIterClient
  \/ \E t \in Threads : gt_dbus_queue_assert_no_messages(t)
  \/ FuncApi("main")
  \/ Disconnect
  \/ gt_dbus_queue_free
  \/ FreeTail
  \/ ServerStep
  \/ Deliver
  \/ Discard

SpecTeardown == Init /\ [][NextTeardown]_vars

\* Calls made by the matching tests: the default one, the same from another
\* connection to the bus, and the same with another argument.
MatchCalls ==
  {DefaultCall, [DefaultCall EXCEPT !.sender = "other"],
   [DefaultCall EXCEPT !.parameters = << "u", 2 >>]}

\* Expected paths of the matching tests: the two objects and a malformed one.
ExpectedPaths == ServicePaths \cup {<< "b" >>}

\* The server thread of a test which sets no server function and does not
\* disconnect: it stays in its first loop.
ServerFirstLoopStep ==
  \/ ServerLoop1
  \/ IterBegin
  \/ gt_dbus_queue_method_call
  \/ DispatchInvoke
  \/ IterEnd

\* The server thread up to the return of the server function.
ServerDispatchStep ==
  \/ ServerLoop1
  \/ ServerReadFunc
  \/ ServerReadData
  \/ ServerLoop2
  \/ IterBegin
  \/ gt_dbus_queue_method_call
  \/ DispatchInvoke
  \/ IterEnd

\* A test which connects, exports the manager object, sends calls, pops them
\* in the constructing thread with gt_dbus_queue_pop_message and matches
\* what it popped.
NextMatch ==
  \/ ~server_thread /\ gt_dbus_queue_connect(TRUE, TRUE, 1)
  \/ \E p \in Paths : gt_dbus_queue_export_object("main", p, MaxObjects)
  \/ ExportObjectWait("main")
  \/ \E c \in MatchCalls : ClientSend(c, "nowait", MaxCalls)
  \/ PopMessageOut("main")
  \/ PopTry("main")
  \/ PopIterClient
  \/ \E path \in ExpectedPaths, interface \in Interfaces, method \in Methods,
        params \in ParameterStrings \cup {"NULL"} :
       MatchCall("main", path, interface, method, params)
  \/ ServerFirstLoopStep
  \/ Deliver
  \/ Discard

SpecMatch == Init /\ [][NextMatch]_vars

\* A test which connects, exports the manager object, sends calls and pops
\* them in the constructing thread with gt_dbus_queue_assert_pop_message.
NextAssertPop ==
  \/ ~server_thread /\ gt_dbus_queue_connect(TRUE, TRUE, 1)
  \/ \E p \in Paths : gt_dbus_queue_export_object("main", p, MaxObjects)
  \/ ExportObjectWait("main")
  \/ \E c \in MatchCalls : ClientSend(c, "nowait", MaxCalls)
  \/ \E path \in ExpectedPaths, interface \in Interfaces, method \in Methods :
       gt_dbus_queue_assert_pop_message("main", path, interface, method)
  \/ PopTry("main")
  \/ PopIterClient
  \/ AssertPopMatch("main")
  \/ ServerFirstLoopStep
  \/ Deliver
  \/ Discard

SpecAssertPop == Init /\ [][NextAssertPop]_vars

\* test_dbus_queue_series: the k-th call of the series.  The first asks the
\* manager for the object path of valid_id, the later ones call
\* Properties.GetAll on the path which the first reply carried.
SeriesCall(k, mode) ==
  IF k = 1
    THEN [sender |-> "client", path |-> ManagerPath, interface |-> "Manager",
          method |-> "GetObjectPath", parameters |-> << "u", valid_id >>,
          async |-> (mode # "sync")]
    ELSE [sender |-> "client", path |-> results[1][2], interface |-> "Properties",
          method |-> "GetAll", parameters |-> << "s", "Object" >>,
          async |-> (mode # "sync")]

\* series_server_cb: what its k-th gt_dbus_queue_assert_pop_message expects;
\* the object path is built from the argument of the first invocation.
SeriesExpect(k) ==
  IF k = 1
    THEN [path |-> ManagerPath, interface |-> "Manager", method |-> "GetObjectPath"]
    ELSE [path |-> ObjectPathOf(sent[popped[1]].parameters[2]),
          interface |-> "Properties", method |-> "GetAll"]

\* bus_set_up has exported both objects.
SetUpDone == {o[2] : o \in bus_objects} = ServicePaths

\* The body of test_dbus_queue_series has made all its calls.
SeriesDone == pc["main"] = "ready" /\ next_serial > MaxCalls

\* bus_set_up, test_dbus_queue_series with series_server_cb as the server
\* function, and bus_tear_down; each call is made synchronously or
\* asynchronously.
NextSeries ==
  \/ ~server_thread /\ gt_dbus_queue_connect(TRUE, TRUE, 1)
  \/ \E p \in ServicePaths :
       /\ p \notin {o[2] : o \in bus_objects}
       /\ gt_dbus_queue_export_object("main", p, Cardinality(ServicePaths))
  \/ ExportObjectWait("main")
  \/ \E f \in UserData : server_func = 0 /\ gt_dbus_queue_set_server_func("main", f)
  \/ SetServerFuncCas("main")
  \/ SetServerFuncWake("main")
  \/ \E mode \in {"sync", "async"} :
       /\ SetUpDone
       /\ server_func # 0
       /\ ClientSend(SeriesCall(next_serial, mode), mode, MaxCalls)
  \/ Deliver
  \/ ReplyArrive
  \/ CallSyncReturn
  \/ CallAsyncIter
  \/ ServerDispatchStep
  \/ /\ Len(popped) < MaxCalls
     /\ invocation["server"] = 0
     /\ LET e == SeriesExpect(Len(popped) + 1)
        IN gt_dbus_queue_assert_pop_message("server", e.path, e.interface, e.method)
  \/ PopTry("server")
  \/ AssertPopMatch("server")
  \/ Reply("server")
  \/ Len(popped) = MaxCalls /\ invocation["server"] = 0 /\ ServerFuncReturn
  \/ SeriesDone /\ gt_dbus_queue_disconnect(TRUE)
  \/ DisconnectStep
  \/ ~server_thread /\ n_connects > 0 /\ gt_dbus_queue_free

SpecSeries == Init /\ [][NextSeries]_vars

\* Scheduling of the series test: threads which can take their next step
\* take it, messages in flight arrive, and series_server_cb goes on to its
\* next statement.
SeriesFairness ==
  /\ WF_vars(ServerLoop1 \/ ServerReadFunc \/ ServerReadData \/ ServerLoop2)
  /\ WF_vars(IterBegin)
  /\ WF_vars(gt_dbus_queue_method_call)
  /\ WF_vars(DispatchInvoke)
  /\ WF_vars(IterEnd)
  /\ WF_vars(Deliver)
  /\ WF_vars(ReplyArrive)
  /\ WF_vars(CallSyncReturn)
  /\ WF_vars(CallAsyncIter)
  /\ WF_vars(PopTry("server"))
  /\ WF_vars(AssertPopMatch("server"))
  /\ WF_vars(Reply("server"))
  /\ WF_vars(/\ Len(popped) < MaxCalls
             /\ invocation["server"] = 0
             /\ LET e == SeriesExpect(Len(popped) + 1)
                IN gt_dbus_queue_assert_pop_message("server", e.path, e.interface,
                                                    e.method))

FairSeries == SpecSeries /\ SeriesFairness

\* Out locations a test passes to gt_signal_logger_pop_emission: all of
\* them, or only the two names (the others are NULL).
Wants ==
  {{"obj", "obj_type_name", "signal_name", "emission"},
   {"obj_type_name", "signal_name"}}

\* The argument a test gives to its next signal emission: a running number.
NextArg == Len(emitted) + 1

\* A test which connects a logger to signals of objects, emits them and pops
\* the emissions.
NextLogger ==
  \/ \E obj \in Objects, sig \in Signals : gt_signal_logger_connect(obj, sig)
  \/ \E obj \in Objects, sig \in Signals : Emit(obj, sig, NextArg)
  \/ \E want \in Wants : gt_signal_logger_pop_emission(want)

SpecLogger == Init /\ [][NextLogger]_vars

\* The same test when it also finalises the objects, frees the emissions it
\* popped and frees the logger, in any order.
NextLoggerLife ==
  \/ \E obj \in Objects, sig \in Signals : gt_signal_logger_connect(obj, sig)
  \/ \E obj \in Objects, sig \in Signals : Emit(obj, sig, NextArg)
  \/ \E want \in Wants : gt_signal_logger_pop_emission(want)
  \/ \E c \in 1..MaxClosures : EmissionFree(c)
  \/ \E obj \in Objects : ObjectFinalize(obj)
  \/ gt_signal_logger_free

SpecLoggerLife == Init /\ [][NextLoggerLife]_vars

\* A test in which a third thread pops the calls which the constructing
\* thread sends.
NextThird ==
  \/ ~server_thread /\ gt_dbus_queue_connect(TRUE, TRUE, 1)
  \/ \E p \in Paths : gt_dbus_queue_export_object("main", p, MaxObjects)
  \/ ExportObjectWait("main")
  \/ ClientCall(MaxCalls)
  \/ ThirdPop
  \/ ThirdPopTry
  \/ ServerFirstLoopStep
  \/ Deliver
  \/ Discard

ThirdFairness ==
  /\ WF_vars(ServerLoop1)
  /\ WF_vars(IterBegin)
  /\ WF_vars(gt_dbus_queue_method_call)
  /\ WF_vars(DispatchInvoke)
  /\ WF_vars(IterEnd)
  /\ WF_vars(Deliver)
  /\ WF_vars(ExportObjectWait("main"))
  /\ WF_vars(ThirdPopTry)

FairThird == Init /\ [][NextThird]_vars /\ ThirdFairness

\* ================================================================ claims
IsPrefix(a, b) == Len(a) <= Len(b) /\ \A i \in 1..Len(a) : a[i] = b[i]
Count(seq, x) == Cardinality({i \in 1..Len(seq) : seq[i] = x})
Connected == server_thread

\* C1: FIFO ordering.  The messages handed out by successive successful pops,
\* in pop order and whichever thread pops, are a prefix of the messages pushed
\* by gt_dbus_queue_method_call in push order.
C1_Fifo == IsPrefix(popped, dispatched)

\* Both threads have popped a message and at least two were handed out.
C1_Witness ==
  /\ Len(popped) >= 2
  /\ ret["main"] = "TRUE"
  /\ ret["server"] = "TRUE"

\* C2: gt_dbus_queue_try_pop_message on a connected queue holding at least
\* one message returns TRUE, hands out the head message, and
\* gt_dbus_queue_get_n_messages decreases by exactly one.
C2_TryPopPops ==
  [][\A t \in Threads :
       (gt_dbus_queue_try_pop_message(t) /\ Connected /\ server_message_queue # << >>)
         => /\ ret'[t] = "TRUE"
            /\ popped' = Append(popped, Head(server_message_queue))
            /\ gt_dbus_queue_get_n_messages' = gt_dbus_queue_get_n_messages - 1]_vars

\* C3: gt_dbus_queue_try_pop_message on an empty queue returns FALSE at once:
\* the caller is back in its own code, no main context was iterated or woken,
\* nothing was handed out and gt_dbus_queue_get_n_messages is still 0.
C3_TryPopEmpty ==
  [][\A t \in Threads :
       (gt_dbus_queue_try_pop_message(t) /\ server_message_queue = << >>)
         => /\ ret'[t] = "FALSE"
            /\ pc'[t] = "ready"
            /\ popped' = popped
            /\ server_message_queue' = << >>
            /\ gt_dbus_queue_get_n_messages' = 0
            /\ UNCHANGED << vCtx, iter >>]_vars

\* A try-pop on the empty queue of a connected GtDBusQueue has returned FALSE.
C3_Witness ==
  \E t \in Threads :
    /\ Connected
    /\ ret[t] = "FALSE"
    /\ pc[t] = "ready"
    /\ server_message_queue = << >>
    /\ dispatched = << >>

\* C5: exactly-once dequeue.  No message is handed out twice, a message handed
\* out is no longer queued, and every message pushed by the dispatch is in
\* exactly one place: handed out, queued, or held by a running
\* gt_dbus_queue_format_messages.
C5_ExactlyOnce ==
  \A m \in 1..(MaxCalls + 1) :
    /\ Count(popped, m) <= 1
    /\ Count(popped, m) + Count(server_message_queue, m)
         + Count(local_queue["main"], m) + Count(local_queue["server"], m)
       = Count(dispatched, m)

\* The two threads were blocked in pop together and both have been served.
C5_Witness ==
  /\ Len(popped) >= 2
  /\ ret["main"] = "TRUE"
  /\ ret["server"] = "TRUE"
  /\ server_message_queue = << >>

\* C6: gt_dbus_queue_format_messages is content- and order-preserving: when
\* it unlocks, the queue is the queue it locked; and while it holds the queue
\* lock no push and no pop takes place.
C6_FormatPreserves ==
  [][/\ \A t \in Threads :
          (pc[t] = "fmt_push" /\ pc'[t] = "ready")
            => server_message_queue' = fmt_before[t]
     /\ qlock # "none" => (popped' = popped /\ dispatched' = dispatched)]_vars

\* A format of two or more messages has drained and re-inserted them and is
\* about to unlock, while the other thread waits in pop for the queue lock.
C6_Witness ==
  \E t \in Threads :
    /\ pc[t] = "fmt_push"
    /\ local_queue[t] = << >>
    /\ Len(server_message_queue) >= 2
    /\ \E u \in Threads \ {t} : pc[u] = "pop_try"

\* Messages in the queue or held by a running gt_dbus_queue_format_messages.
Available ==
  Len(server_message_queue) + Len(local_queue["main"]) + Len(local_queue["server"])
InPop(t) == pc[t] \in {"pop_try", "pop_iter"}

\* C4 as stated: a message pushed while a thread was blocked in
\* gt_dbus_queue_pop_message is returned by that thread's pop, so no other
\* thread's pop hands it out.
C4_BlockedPopGetsMessage ==
  [][\A u \in Threads :
       (PopTry(u) /\ server_message_queue # << >>)
         => blocked_at_push[Head(server_message_queue)] \subseteq {u}]_vars

\* The handler is between its push and its wake-up of client_context.
WakeClientPending ==
  /\ iter.on
  /\ iter.mc >= 1
  /\ \E k \in (iter.mc + 1)..Len(MethodCallSteps) : MethodCallSteps[k] = "wake_client"

\* C4 (amended): blocking pop makes progress.  The wake-up of a push is never
\* lost: the constructing thread is never about to block in its iteration
\* while a message is queued and no wake-up of client_context is pending or
\* about to be sent, and the server thread is never about to block while a
\* message is queued.  A thread inside a blocking pop while a message is
\* available eventually returns TRUE, unless the other thread's pop hands a
\* message out first (or an assertion of the other thread aborts the process).
C4_PopProgress ==
  /\ []((pc["main"] = "pop_iter" /\ server_message_queue # << >> /\ qlock = "none")
          => (client_wake \/ WakeClientPending))
  /\ []((pc["server"] = "pop_iter" /\ ~iter.on /\ qlock = "none")
          => server_message_queue = << >>)
  /\ \A t \in Threads : \A k \in 0..(MaxCalls + 1) :
       (InPop(t) /\ Available > 0 /\ Len(popped) = k)
         ~> \/ pc[t] = "ready" /\ ret[t] = "TRUE"
            \/ Len(popped) > k
            \/ failure # "none"

\* The constructing thread was blocked in pop when the head message was
\* pushed, has been woken by the handler and is about to pop it.
C4_Witness ==
  /\ pc["main"] = "pop_try"
  /\ server_message_queue # << >>
  /\ "main" \in blocked_at_push[Head(server_message_queue)]
  /\ ~client_wake

\* C7: the server function is invoked exactly once, in the server thread:
\* over the whole lifetime of the queue it is never called a second time.
C7_InvokedOnce == func_calls <= 1

\* C8: the first gt_dbus_queue_set_server_func installs the function; every
\* later compare-and-swap, from either thread, fails and asserts; at most one
\* caller ever installs a function.
C8_SetOnce ==
  /\ [](installs <= 1)
  /\ [][\A t \in Threads :
          SetServerFuncCas(t)
            => IF server_func = 0
                 THEN server_func' = locals[t].id /\ failure' = "none"
                 ELSE server_func' = server_func /\ failure' = "set_server_func_twice"]_vars

\* A second gt_dbus_queue_set_server_func has hit the assertion.
C8_Witness ==
  /\ failure = "set_server_func_twice"
  /\ installs = 1
  /\ server_func # 0

InDisconnect == pc["main"] \in {"disc", "free_disc"}

\* C9 as stated: once gt_dbus_queue_disconnect has passed its emptiness
\* assertion it terminates, whatever the server thread is doing (unless the
\* process aborts on a failed assertion in between).
C9_DisconnectTerminates ==
  InDisconnect ~> (pc["main"] = "ready" \/ failure # "none")

\* The steps of disconnect the claim lists, in the claimed order.
ClaimedOrder ==
  << "close_client", "unown_names", "unexport_objects", "remove_filter",
     "close_server", "set_quitting", "wake_server", "join" >>
Restrict(seq, S) ==
  LET F[i \in 0..Len(seq)] ==
        IF i = 0 THEN << >>
        ELSE IF seq[i] \in S THEN Append(F[i - 1], seq[i]) ELSE F[i - 1]
  IN F[Len(seq)]

\* C10: the steps of disconnect occur in the claimed order, and the quitting
\* flag is never set while the client connection is still open or while any
\* owned ID is still tracked.
C10_ShutdownOrder ==
  /\ [](InDisconnect => IsPrefix(Restrict(dlog, Range(ClaimedOrder)), ClaimedOrder))
  /\ [][(DisconnectStep /\ quitting' /\ Len(dlog') = Len(dlog) + 1
           /\ dlog'[Len(dlog')] = "set_quitting")
          => (~client_connection /\ name_ids = << >> /\ object_ids = << >>)]_vars

\* The server thread started by g_thread_new has not been joined yet.
ThreadExists == spc # "none"

\* C11: the queue has a server thread exactly from a successful connect to
\* the completion of the following disconnect: the thread is created only by
\* a connect which returns TRUE and disappears only when disconnect returns;
\* self->server_thread never names a thread which does not exist, and between
\* calls of the constructing thread it is set iff the thread exists; a failed
\* connect and a completed disconnect leave no thread behind.
C11_ThreadExistence ==
  /\ [](server_thread => ThreadExists)
  /\ [](~InDisconnect => (server_thread <=> ThreadExists))
  /\ [][((~ThreadExists /\ ThreadExists')
           <=> (n_connects' = n_connects + 1 /\ returned' = << "connect", TRUE >>))
        /\ ((ThreadExists /\ ~ThreadExists') <=> (InDisconnect /\ ~InDisconnect'))
        /\ \A okc, oks \in BOOLEAN :
             (gt_dbus_queue_connect(okc, oks, MaxConnects)
                /\ returned' = << "connect", FALSE >>)
               => (server_thread' = server_thread /\ ThreadExists' = ThreadExists)]_vars

\* A connect has succeeded, its disconnect has completed, and a later connect
\* has failed: there is no thread.
C11_Witness ==
  /\ n_connects >= 1
  /\ returned = << "connect", FALSE >>
  /\ ~server_thread
  /\ ~ThreadExists

\* Everything but the record of the last return value.
QueueState ==
  << server_thread, spc, server_func, server_func_data, sf_local, quitting,
     client_connection, server_connection, server_filter_id, name_ids,
     object_ids, lock, bus_names, bus_objects, next_name_id, next_object_id,
     server_message_queue, qlock, local_queue, server_sources, server_wake,
     client_wake, iter, pc, locals, transit, next_serial, n_connects,
     failure, dispatched, popped >>

\* C12: gt_dbus_queue_connect on a connected queue returns FALSE and changes
\* nothing: no bus session, connection or thread is created and every field
\* (connections, thread, owned IDs, pending messages) keeps its value.
C12_ConnectWhenConnected ==
  [][\A okc, oks \in BOOLEAN :
       (gt_dbus_queue_connect(okc, oks, MaxConnects) /\ server_thread)
         => /\ returned' = << "connect", FALSE >>
            /\ UNCHANGED QueueState]_vars

\* A connect on a connected queue has returned FALSE.
C12_Witness ==
  /\ returned = << "connect", FALSE >>
  /\ server_thread
  /\ client_connection
  /\ name_ids # << >>

\* C13: gt_dbus_queue_get_client_connection is NULL before the first connect
\* and after disconnect, is the client connection while the queue is
\* connected, and is never non-NULL unless the queue is connected.
C13_ClientConnection ==
  /\ [](returned = << "none" >> => ~gt_dbus_queue_get_client_connection)
  /\ []((Connected /\ ~InDisconnect) => gt_dbus_queue_get_client_connection)
  /\ [](gt_dbus_queue_get_client_connection => Connected)
  /\ [][(InDisconnect /\ ~InDisconnect') => ~gt_dbus_queue_get_client_connection']_vars

\* No element is 0 and no element occurs twice.
DistinctNonZero(ids) ==
  /\ \A i \in 1..Len(ids) : ids[i] # 0
  /\ \A i, j \in 1..Len(ids) : ids[i] = ids[j] => i = j

\* C14: the tracked name IDs and object IDs are non-zero and pairwise
\* distinct in every state, and the ID which an own_name or a successful
\* export_object returns is non-zero and differs from every ID tracked from
\* earlier calls.
C14_DistinctIds ==
  /\ [](DistinctNonZero(name_ids) /\ DistinctNonZero(object_ids))
  /\ [][\A t \in Threads :
          /\ OwnNameWait(t)
               => /\ locals[t].id # 0
                  /\ locals[t].id \notin Range(name_ids)
                  /\ name_ids' = Append(name_ids, locals[t].id)
          /\ (ExportObjectWait(t) /\ ~locals[t].error)
               => /\ locals[t].id # 0
                  /\ locals[t].id \notin Range(object_ids)
                  /\ object_ids' = Append(object_ids, locals[t].id)]_vars

\* Two names are owned and two objects exported.
C14_Witness ==
  /\ Len(name_ids) = 2
  /\ Len(object_ids) = 2
  /\ \A t \in Threads : pc[t] = "ready"

\* C15: gt_dbus_queue_unown_name and gt_dbus_queue_unexport_object called
\* with an ID which is not tracked reach the assertion failure; they never
\* return normally.
C15_UnregisterUntracked ==
  [][\A t \in Threads :
       /\ \A id \in 0..MaxRegNames :
            (gt_dbus_queue_unown_name(t, id) /\ id \notin Range(name_ids))
              => failure' = "unown_name_not_found"
       /\ \A id \in 0..MaxRegObjects :
            (gt_dbus_queue_unexport_object(t, id) /\ id \notin Range(object_ids))
              => failure' = "unexport_object_not_found"]_vars

\* C16: gt_dbus_queue_unown_name on a tracked ID removes exactly that entry
\* and leaves the object IDs and the message queue alone; symmetrically for
\* gt_dbus_queue_unexport_object.
C16_RemovesExactlyThat ==
  [][\A t \in Threads :
       /\ \A id \in 0..MaxRegNames :
            (gt_dbus_queue_unown_name(t, id) /\ id \in Range(name_ids))
              => /\ Range(name_ids') = Range(name_ids) \ {id}
                 /\ Len(name_ids') = Len(name_ids) - 1
                 /\ object_ids' = object_ids
                 /\ server_message_queue' = server_message_queue
       /\ \A id \in 0..MaxRegObjects :
            (gt_dbus_queue_unexport_object(t, id) /\ id \in Range(object_ids))
              => /\ Range(object_ids') = Range(object_ids) \ {id}
                 /\ Len(object_ids') = Len(object_ids) - 1
                 /\ name_ids' = name_ids
                 /\ server_message_queue' = server_message_queue]_vars

\* C17: gt_dbus_queue_export_object with a malformed object path fails a
\* fatal assertion; it never returns 0 to its caller without an error.
C17_MalformedPathAsserts ==
  [][\A t \in Threads, p \in RegPaths :
       (gt_dbus_queue_export_object(t, p, MaxRegObjects) /\ ~IsObjectPath(p))
         => failure' # "none"]_vars

\* C18: when the registration fails, gt_dbus_queue_export_object returns 0
\* with the error set, tracks no new ID, changes no registration and the
\* caller goes on; when it succeeds, it returns a non-zero ID which is then
\* tracked exactly once.
C18_ExportFailureRecoverable ==
  [][\A t \in Threads :
       ExportObjectWait(t)
         => IF ExportReturn(t).error
              THEN /\ ExportReturn(t).id = 0
                   /\ object_ids' = object_ids
                   /\ bus_objects' = bus_objects
                   /\ failure' = "none"
                   /\ pc'[t] = "ready"
              ELSE /\ ExportReturn(t).id # 0
                   /\ Count(object_ids', ExportReturn(t).id) = 1
                   /\ \E o \in bus_objects : o[1] = ExportReturn(t).id]_vars

\* The registration of an already exported path has failed and the caller of
\* gt_dbus_queue_export_object is about to get the error.
C18_Witness ==
  \E t \in Threads :
    /\ pc[t] = "exp_wait"
    /\ locals[t].error
    /\ locals[t].id = 0
    /\ object_ids # << >>

\* C19: own_name_cb and export_object_cb run only in the server thread (in
\* place when the server function makes the call, inside an iteration of
\* server_context otherwise), and own_name / export_object return only a
\* result which the callback has published.
C19_RegistrationInServerThread ==
  /\ [][(~(bus_names' \subseteq bus_names) \/ ~(bus_objects' \subseteq bus_objects)
           \/ \E t \in Threads : locals[t].id = 0 /\ locals'[t].id # 0 /\ pc'[t] = pc[t])
          => \/ DispatchInvoke /\ iter.on /\ IterSite # "none"
             \/ gt_dbus_queue_own_name("server", MaxRegNames)
             \/ \E p \in RegPaths : gt_dbus_queue_export_object("server", p, MaxRegObjects)]_vars
  /\ [][\A t \in Threads :
          /\ OwnNameWait(t) => locals[t].id \in bus_names
          /\ ExportObjectWait(t)
               => (locals[t].error \/ \E o \in bus_objects : o[1] = locals[t].id)]_vars

\* The constructing thread waits in gt_dbus_queue_own_name and the callback,
\* dispatched by the server thread's iteration, has published the ID.
C19_Witness ==
  /\ pc["main"] = "own_wait"
  /\ locals["main"].id # 0
  /\ locals["main"].id \in bus_names
  /\ iter.on
  /\ IterSite # "none"

\* A registration call is waiting for its result on a queue whose server
\* connection is open.
RegistrationWaits(t) ==
  /\ pc[t] \in {"own_wait", "exp_wait"}
  /\ server_connection
  /\ server_thread

\* C20: an own_name or export_object call made on a connected queue, from the
\* constructing thread or from the server function, eventually returns.
C20_RegistrationReturns ==
  \A t \in Threads :
    RegistrationWaits(t) ~> (pc[t] = "ready" \/ failure # "none")

\* C21: gt_dbus_queue_assert_no_messages passes exactly when
\* gt_dbus_queue_get_n_messages is 0 and fails the test otherwise; either
\* way it removes no message from the queue and does not reorder it.
C21_AssertNoMessages ==
  [][\A t \in Threads :
       gt_dbus_queue_assert_no_messages(t) =>
         /\ (failure' = "assert_no_messages") <=> (gt_dbus_queue_get_n_messages > 0)
         /\ (failure' = "none") <=> (gt_dbus_queue_get_n_messages = 0)
         /\ gt_dbus_queue_get_n_messages = 0 => returned' = << "assert_no_messages" >>
         /\ server_message_queue' = server_message_queue
         /\ popped' = popped]_vars

\* The assertion has passed on a queue whose messages had all been popped.
C21_Witness ==
  /\ returned = << "assert_no_messages" >>
  /\ Len(popped) >= 1
  /\ server_message_queue = << >>
  /\ failure = "none"

\* C22: gt_dbus_queue_disconnect (self, TRUE) with a message pending fails
\* the emptiness assertion before any teardown: connections, registrations,
\* quitting and the thread are as they were.  With FALSE the disconnect
\* starts whatever is pending, and no later statement of it fails.
C22_DisconnectAssertion ==
  [][/\ (gt_dbus_queue_disconnect(TRUE) /\ gt_dbus_queue_get_n_messages > 0) =>
          /\ failure' = "assert_no_messages"
          /\ UNCHANGED << client_connection, server_connection, server_filter_id,
                          name_ids, object_ids, bus_names, bus_objects, quitting,
                          server_thread, spc, pc, dlog >>
     /\ gt_dbus_queue_disconnect(FALSE) =>
          (failure' = "none" /\ pc'["main"] = "disc")
     /\ DisconnectStep => failure' = "none"]_vars

\* A disconnect is tearing the connection down while a message is pending.
C22_Witness ==
  /\ pc["main"] = "disc"
  /\ Len(dlog) >= 1
  /\ server_message_queue # << >>
  /\ failure = "none"

\* C23: gt_dbus_queue_free on a queue which was disconnected without the
\* emptiness assertion completes without an assertion failure, however many
\* messages are pending.
C23_FreeAfterDisconnect ==
  [][(gt_dbus_queue_free /\ ~server_thread) =>
       (failure' = "none" /\ pc'["main"] = "freed")]_vars

\* C28: outside the queue's critical sections gt_dbus_queue_get_n_messages
\* is the number of messages enqueued less the number handed out by pops;
\* it is never negative and 0 on a queue which has seen no message.
C28_NMessages ==
  /\ gt_dbus_queue_get_n_messages >= 0
  /\ qlock = "none" =>
       gt_dbus_queue_get_n_messages = Len(dispatched) - Len(popped)
  /\ dispatched = << >> => gt_dbus_queue_get_n_messages = 0

\* A message has been handed out and another one is still queued while a
\* thread is inside a pop.
C28_Witness ==
  /\ qlock = "none"
  /\ Len(popped) >= 1
  /\ gt_dbus_queue_get_n_messages >= 1
  /\ \E t \in Threads : pc[t] \in {"pop_try", "pop_iter"}

\* C26: gt_dbus_queue_match_client_message on a connected queue returns TRUE
\* exactly when the invocation's sender is the unique name of the queue's
\* client connection, its object path, interface and method equal the
\* expected ones, and the parameters string is NULL or denotes the
\* invocation's arguments; a call of it changes neither the queue nor the
\* message.
C26_MatchClientMessage ==
  /\ [](client_connection =>
          \A m \in 1..Len(sent), path \in ExpectedPaths, interface \in Interfaces,
             method \in Methods, params \in ParameterStrings \cup {"NULL"} :
            LET c == sent[m]
                args == CASE params = "(1,)" -> << "i", 1 >>
                          [] params = "(uint32 1,)" -> << "u", 1 >>
                          [] params = "(uint32 2,)" -> << "u", 2 >>
                          [] OTHER -> << >>
            IN gt_dbus_queue_match_client_message(m, path, interface, method, params)
                 <=> /\ c.sender = "client"
                     /\ c.path = path
                     /\ c.interface = interface
                     /\ c.method = method
                     /\ (params = "NULL" \/ c.parameters = args))
  /\ [][\A t \in Threads :
          (/\ returned' # returned
           /\ \E path \in ExpectedPaths, interface \in Interfaces, method \in Methods,
                 params \in ParameterStrings \cup {"NULL"} :
                MatchCall(t, path, interface, method, params)) =>
            /\ failure' = "none"
            /\ UNCHANGED << server_message_queue, popped, sent, invocation, replied >>
            /\ \E path \in ExpectedPaths, interface \in Interfaces, method \in Methods,
                  params \in ParameterStrings \cup {"NULL"} :
                 returned' = << "match", gt_dbus_queue_match_client_message(
                                           invocation[t], path, interface, method, params) >>]_vars

\* A match with a parameters string has returned TRUE for a held invocation
\* and the queue still holds another message.
C26_Witness ==
  /\ returned = << "match", TRUE >>
  /\ invocation["main"] # 0
  /\ server_message_queue # << >>
  /\ client_connection

\* C27: gt_dbus_queue_assert_pop_message takes exactly the head of the queue
\* with a blocking pop and returns it when it was sent by the queue's client
\* connection to the expected path, interface and method, whatever its
\* arguments; otherwise the assertion fails and nothing is returned.  On
\* success the queue is shorter by one message and the caller holds it.
C27_AssertPopMessage ==
  [][\A t \in Threads :
       /\ (PopTry(t) /\ popcall[t].assert /\ server_message_queue # << >>) =>
            /\ invocation'[t] = Head(server_message_queue)
            /\ server_message_queue' = Tail(server_message_queue)
            /\ pc'[t] = "apm_match"
       /\ (AssertPopMatch(t) /\ client_connection) =>
            LET c == sent[invocation[t]]
                equal == /\ c.sender = "client"
                         /\ c.path = popcall[t].path
                         /\ c.interface = popcall[t].interface
                         /\ c.method = popcall[t].method
            IN /\ equal => (failure' = "none" /\ pc'[t] = "ready"
                            /\ invocation'[t] = invocation[t])
               /\ ~equal => (failure' = "assert_pop_mismatch" /\ pc'[t] # "ready")
               /\ server_message_queue' = server_message_queue]_vars

\* An assert-pop has returned a message whose argument is not the usual one
\* while a later message is still queued.
C27_Witness ==
  /\ pc["main"] = "ready"
  /\ invocation["main"] # 0
  /\ popped = << invocation["main"] >>
  /\ ret["main"] = "TRUE"
  /\ sent[invocation["main"]].parameters = << "u", 2 >>
  /\ Len(server_message_queue) = 1
  /\ failure = "none"

\* C24: the endpoint dispatch pushes every call it is given onto the queue
\* exactly once and sends no reply; a reply exists only for a call whose
\* message has been popped, never for one which is still queued.
C24_DispatchNeverReplies ==
  /\ [](\A m \in Serials :
          /\ Count(dispatched, m) <= 1
          /\ replied[m] # NoReply =>
               (m \in Range(popped) /\ m \notin Range(server_message_queue)
                /\ Count(dispatched, m) = 1))
  /\ [][gt_dbus_queue_method_call =>
          /\ replied' = replied
          /\ results' = results
          /\ (iter.mc = 0 /\ iter'.mc = 1) =>
               /\ dispatched' = Append(dispatched, Head(iter.batch)[2])
               /\ server_message_queue' =
                    Append(server_message_queue, Head(iter.batch)[2])]_vars

\* The first call has been answered after its pop and the second call has
\* been pushed and is still queued, unanswered.
C24_Witness ==
  /\ replied[1] # NoReply
  /\ popped = << 1 >>
  /\ dispatched = << 1, 2 >>
  /\ server_message_queue = << 2 >>
  /\ replied[2] = NoReply

\* C25: with a server function which pops each call in turn and replies to
\* it, every call made on the client connection, synchronously or
\* asynchronously, eventually completes; the reply it completes with is the
\* one sent on that call's popped message; and when the series is over the
\* queue is empty, so gt_dbus_queue_disconnect (self, TRUE) passes.
C25_RoundTrip ==
  /\ [](\A m \in 1..Len(sent) :
          results[m] # NoReply =>
            /\ m \in Range(popped)
            /\ results[m] = replied[m]
            /\ results[m] = ServiceReply(sent[m]))
  /\ [][gt_dbus_queue_disconnect(TRUE) =>
          (server_message_queue = << >> /\ failure' = "none")]_vars
  /\ \A m \in 1..MaxCalls : (Len(sent) >= m) ~> (results[m] # NoReply)
  /\ [](failure = "none")

\* A synchronous and an asynchronous call of one series have both completed
\* and the disconnect with the emptiness assertion is under way.
C25_Witness ==
  /\ results[1] # NoReply
  /\ results[2] # NoReply
  /\ sent[1].async # sent[2].async
  /\ pc["main"] = "disc"
  /\ failure = "none"

\* What a logged emission says: the emitting object, the signal and the
\* arguments.
EmissionView(e) ==
  [obj |-> closures[e.closure].obj, signal_name |-> closures[e.closure].signal_name,
   params |-> e.params]

\* C29: the emissions of every connected signal and object are appended to
\* the one log in emission order and gt_signal_logger_pop_emission removes
\* and returns the oldest one, so the popped emissions followed by the
\* logged ones are the emissions in the order they happened;
\* gt_signal_logger_get_n_emissions is the number logged less the number
\* popped.
C29_LoggerFifo ==
  /\ [](/\ [k \in 1..(Len(lpopped) + Len(log)) |-> EmissionView((lpopped \o log)[k])]
             = emitted
        /\ gt_signal_logger_get_n_emissions = Len(emitted) - Len(lpopped))
  /\ [][\A want \in Wants :
          (gt_signal_logger_pop_emission(want) /\ log # << >>) =>
            /\ lout'.result = "TRUE"
            /\ lpopped' = Append(lpopped, Head(log))
            /\ log' = Tail(log)
            /\ "emission" \in want => lout'.emission = Head(log)
            /\ "obj" \in want => lout'.obj = emitted[Len(lpopped) + 1].obj
            /\ "signal_name" \in want =>
                 lout'.signal_name = emitted[Len(lpopped) + 1].signal_name]_vars

\* Two emissions of different signals have been popped in their order and a
\* third, emitted last, is still logged.
C29_Witness ==
  /\ Len(lpopped) = 2
  /\ Len(log) = 1
  /\ EmissionView(lpopped[1]).signal_name # EmissionView(lpopped[2]).signal_name
  /\ lout.result = "TRUE"
  /\ lout.emission = lpopped[2]

\* C30: gt_signal_logger_pop_emission on a logger without logged emissions
\* returns FALSE, sets every out location it was given to NULL and changes
\* neither the log nor the closures; a new logger reports 0 emissions.
C30_PopEmpty ==
  /\ [](emitted = << >> => gt_signal_logger_get_n_emissions = 0)
  /\ [][\A want \in Wants :
          (gt_signal_logger_pop_emission(want) /\ gt_signal_logger_get_n_emissions = 0) =>
            /\ lout'.result = "FALSE"
            /\ "obj" \in want => lout'.obj = 0
            /\ "obj_type_name" \in want => lout'.obj_type_name = "NULL"
            /\ "signal_name" \in want => lout'.signal_name = "NULL"
            /\ "emission" \in want => lout'.emission = NullEmission
            /\ "obj" \notin want => lout'.obj = lout.obj
            /\ "emission" \notin want => lout'.emission = lout.emission
            /\ UNCHANGED << log, closures, lpopped >>]_vars

\* A pop on a log which has been emptied by earlier pops has returned FALSE
\* and set the out locations, which held the previous emission, to NULL.
C30_Witness ==
  /\ lout.result = "FALSE"
  /\ lout.obj = 0
  /\ lout.emission = NullEmission
  /\ log = << >>
  /\ Len(lpopped) >= 1
  /\ closures # << >>

\* C31: a closure whose object is finalised, or whose logger is freed, has
\* no signal handler any more; after gt_signal_logger_free every closure is
\* invalid with signal_id 0; an emission is logged only through closures
\* which are connected and not invalid; and the assertion of the closure
\* finaliser holds for every closure, whatever the order of object
\* finalisation, pops, emission frees and the logger's free.
C31_ClosureLifetime ==
  /\ [](\A i \in 1..Len(closures) :
          /\ closures[i].finalized # "assert"
          /\ (closures[i].obj \notin alive \/ lfreed) => ~closures[i].handler
          /\ lfreed => closures[i].is_invalid
          /\ closures[i].is_invalid => closures[i].signal_id = 0 /\ ~closures[i].handler
          /\ closures[i].finalized = "ok" =>
               closures[i].is_invalid /\ RefCount(closures, i, log, held, lfreed) = 0)
  /\ [][Len(emitted') > Len(emitted) =>
          /\ ~lfreed
          /\ Len(log') = Len(log) + Len(emitted') - Len(emitted)
          /\ \A k \in (Len(log) + 1)..Len(log') :
               /\ closures[log'[k].closure].handler
               /\ ~closures[log'[k].closure].is_invalid
               /\ closures[log'[k].closure].signal_id # 0]_vars

\* The logger has been freed after an object was finalised; one closure has
\* been finalised and another is kept alive by a popped emission.
C31_Witness ==
  /\ lfreed
  /\ alive # Objects
  /\ \E i \in 1..Len(closures) : closures[i].finalized = "ok"
  /\ \E i \in 1..Len(closures) : closures[i].finalized = "no" /\ held[i] > 0

\* The state of the server thread in the terms of the design.
ServerState ==
  CASE spc \in {"loop1", "loop1_iter", "read_func", "read_data"} -> "Idle"
    [] spc = "func" -> "Running"
    [] spc \in {"loop2", "loop2_iter"} -> "Draining"
    [] spc = "loop3_iter" -> "Quitting"
    [] OTHER -> "Exited"

ServerMoves ==
  {<< "Exited", "Idle" >>, << "Idle", "Running" >>, << "Idle", "Draining" >>,
   << "Running", "Draining" >>, << "Draining", "Quitting" >>, << "Quitting", "Exited" >>}

\* C32: the server thread moves only Idle -> Running -> Draining -> Quitting
\* -> exited, or Idle -> Draining when no server function is set; it becomes
\* Running only by invoking a server function it has read, and leaves
\* Running only when that function has returned; it is Quitting or exits
\* only when the quitting flag is set; while Quitting its loop iterations do
\* not block.
C32_ServerStates ==
  /\ [][/\ ServerState' # ServerState => << ServerState, ServerState' >> \in ServerMoves
        /\ (ServerState = "Exited" /\ ServerState' = "Idle") => (~server_thread /\ server_thread')
        /\ (ServerState # "Running" /\ ServerState' = "Running") =>
             (sf_local.func # 0 /\ func_calls' = func_calls + 1)
        /\ (ServerState = "Idle" /\ ServerState' = "Draining") => sf_local.func = 0
        /\ (ServerState = "Running" /\ ServerState' = "Draining") =>
             (pc["server"] = "ready" /\ ~iter.on)]_vars
  /\ [](ServerState = "Quitting" => quitting /\ ~MayBlock(IterSite))
  /\ []((server_thread /\ ServerState = "Exited") => quitting)
  /\ [](ServerState # "Running" => pc["server"] = "ready")

\* The thread has exited after a server function ran, dispatched a call in
\* its draining loop and the constructing thread asked it to quit.
C32_Witness ==
  /\ spc = "exited"
  /\ func_calls = 1
  /\ quitting
  /\ dispatched # << >>
  /\ n_connects = 1

\* A step of gt_dbus_queue_disconnect which makes unregister calls
\* (g_bus_unown_name, g_dbus_connection_unregister_object).
DisconnectUnregisters ==
  /\ dlog' # dlog
  /\ bus_names' # bus_names \/ bus_objects' # bus_objects

\* C33 as stated: disconnect does not hold the queue's lock while its
\* unregister calls execute.
C33_UnregisterUnlocked == [][DisconnectUnregisters => lock # "main"]_vars

\* C33: disconnect holds the queue's lock from before its first unregister
\* call until both ID collections are emptied, so its unregister calls
\* execute with the lock held and the collections are emptied under the same
\* lock; it is gt_dbus_queue_unown_name and gt_dbus_queue_unexport_object
\* which make their unregister call after releasing the lock.
C33_UnregisterLocked ==
  [][/\ DisconnectUnregisters => (lock = "main" /\ lock' = "main")
     /\ (dlog' # dlog /\ (name_ids' # name_ids \/ object_ids' # object_ids)) =>
          (lock = "main" /\ lock' = "main")
     /\ \A t \in Threads :
          (pc[t] \in {"unown_bus", "unexp_bus"} /\ pc'[t] = "ready") =>
            (lock # t /\ (bus_names' # bus_names \/ bus_objects' # bus_objects))]_vars

\* disconnect has unregistered a name and an object and still holds the lock.
C33_Witness ==
  /\ InDisconnect
  /\ lock = "main"
  /\ Len(dlog) >= 4
  /\ next_name_id > 1
  /\ next_object_id > 1
  /\ bus_names = {}
  /\ bus_objects = {}

\* C34: a blocking gt_dbus_queue_pop_message issued from a third thread,
\* whose thread-default context is neither client_context nor
\* server_context, returns TRUE once the dispatch has enqueued a message.
C34_ThirdThreadPopReturns ==
  [](((third.pc \in {"pop_try", "pop_iter"}) /\ server_message_queue # << >>)
       => <>(third.pc = "ready" /\ third.ret = "TRUE"))

C36_UnregisteredOnce ==
  /\ [][\A t \in Threads :
          /\ UnownNameBus(t) => locals[t].id \in bus_names
          /\ UnexportObjectBus(t) =>
               /\ failure' = "none"
               /\ \E o \in bus_objects : o[1] = locals[t].id
               /\ \A o \in bus_objects' : o[1] # locals[t].id]_vars
  /\ [][DisconnectUnregisters =>
          /\ bus_names \ bus_names' \subseteq Range(name_ids)
          /\ \A o \in bus_objects \ bus_objects' : o[1] \in Range(object_ids)]_vars
  /\ []((~server_thread /\ ~InDisconnect) => (name_ids = << >> /\ object_ids = << >>))

\* C37: between the emptiness check of gt_dbus_queue_disconnect (self, TRUE)
\* and the join of the server thread no message is enqueued, so the queue is
\* empty when that disconnect returns: gt_dbus_queue_free, which disconnects
\* with the assertion, finds the queue empty afterwards.
C37_EmptyAtReturn ==
  /\ [][InDisconnect => Len(dispatched') = Len(dispatched)]_vars
  /\ [](pc["main"] = "free_tail" => server_message_queue = << >>)

\* C38: a gt_dbus_queue_connect which returns FALSE because a connection
\* could not be opened leaves the queue unconnected: no server thread,
\* gt_dbus_queue_get_client_connection NULL, no server connection and no
\* filter; the next connect is not refused.
C38_FailedConnect ==
  [][\A okc, oks \in BOOLEAN :
       (gt_dbus_queue_connect(okc, oks, MaxConnects) /\ ~server_thread
          /\ returned' = << "connect", FALSE >>)
         => /\ ~server_thread'
            /\ ~ThreadExists'
            /\ ~gt_dbus_queue_get_client_connection'
            /\ ~server_connection'
            /\ server_filter_id' = 0
            /\ ~AlreadyConnected']_vars

\* C39: the server thread of every connect, also of one which follows a
\* completed disconnect, starts with the quitting flag clear, does not reach
\* its final loop or exit before the next disconnect has begun, and invokes
\* the server function only if no earlier thread has invoked it.
C39_ReconnectIsFresh ==
  /\ [][(~ThreadExists /\ ThreadExists') => ~quitting']_vars
  /\ []((server_thread /\ ~InDisconnect) => spc \notin {"loop3_iter", "exited"})
  /\ [][func_calls' > func_calls => func_calls = 0]_vars

\* The (func, user_data) pairs a test passes to gt_dbus_queue_set_server_func:
\* the pair of call k is written k in both fields.
FuncData == {1, 2}

\* A test which connects, sets a server function from either thread (the
\* server thread from inside the running function), owns names, disconnects
\* and connects again.
NextFuncData ==
  \/ ~server_thread /\ gt_dbus_queue_connect(TRUE, TRUE, MaxConnects)
  \/ Disconnect
  \/ \E t \in Threads : \E f \in FuncData : gt_dbus_queue_set_server_func(t, f)
  \/ \E t \in Threads : SetServerFuncCas(t) \/ SetServerFuncWake(t)
  \/ \E t \in Threads : gt_dbus_queue_own_name(t, MaxNames) \/ OwnNameWait(t)
  \/ ServerIdleStep

SpecFuncData == Init /\ [][NextFuncData]_vars

\* C40: whenever the server function runs, the user data it was invoked with
\* is the data passed by the gt_dbus_queue_set_server_func call which
\* installed the function.
C40_InvokedWithOwnData ==
  spc = "func" => sf_local.data = sf_local.func

====
